---- MODULE Spec2Model ----
(***************************************************************************)
(* CNHScannerV1: live document detection (CameraScreen), temporal          *)
(* stabilizer (onQuadDetected), and the crop trigger of PreviewScreen.     *)
(*                                                                         *)
(* Numbers: pixel coordinates are integers; a JavaScript division or a     *)
(* multiplication by a decimal literal is computed in fixed point with     *)
(* floor rounding (lerp, ratioX/ratioY).  Times are milliseconds.          *)
(*                                                                         *)
(* Threads: the JS thread runs one task at a time (a runOnJS delivery, a   *)
(* press handler, one React render pass); the frame-processor thread runs  *)
(* the worklet of frameProcessor; the clock advances independently.        *)
(***************************************************************************)
EXTENDS Integers, Sequences, FiniteSets, TLC

VARIABLES
  now,                        \* Date.now() / performance.now(), ms
  isRealtimeEnabledRef,       \* CameraScreen.tsx:198
  isRealtimeDetectionEnabled, \* CameraScreen.tsx:195 (committed React state)
  realtimeQueue,              \* pending setIsRealtimeDetectionEnabled values
  lastGoodRef,                \* CameraScreen.tsx:185
  lastGoodTsRef,              \* CameraScreen.tsx:186
  stableDetectedRef,          \* CameraScreen.tsx:187
  detected,                   \* CameraScreen.tsx:191 (committed React state)
  detectedQueue,              \* pending setDetected updates, in call order
  render,                     \* the render pass of CameraScreen in progress
  jsQueue,                    \* onQuadDetected calls posted by the worklet
  fp,                         \* frame-processor thread: the analysis running
  lastFrameProcessorCall,     \* runAtTargetFps: time of the last accepted run
  fed,                        \* observer: stabilizer inputs since enabling
  dFrame,                     \* detector alone: the frame analysed
  dDone,                      \* detector alone: the analysis of dFrame has ended
  dResult,                    \* detector alone: the payload of onQuadDetected
  dCalls,                     \* detector alone: stages run, then clearBuffers
  imageMeta,                  \* PreviewScreen.tsx:275
  getSizePending,             \* PreviewScreen.tsx:349: Image.getSize not answered
  previewSize,                \* PreviewScreen.tsx:326
  quadOnImage,                \* PreviewScreen.tsx:332
  isCropping,                 \* PreviewScreen.tsx:262
  cropError,                  \* PreviewScreen.tsx:263
  croppedUri,                 \* PreviewScreen.tsx:261: a cropped file is shown
  previewQueue,               \* pending state updates of PreviewScreen
  crops,                      \* cropDocumentFromFile calls not yet settled
  gIn,                        \* geometry alone: the quad and the spaces given
  gOut,                       \* geometry alone: the quad a transform produced
  editorSize,                 \* PreviewScreen.tsx:327
  isEditing,                  \* PreviewScreen.tsx:330
  editQuadView,               \* PreviewScreen.tsx:331
  editLog,                    \* observer: corners a drag wrote, drags so far
  cIn,                        \* cropDocumentFromFile alone: its input
  cPc,                        \* cropDocumentFromFile alone: the step to run next
  cTrace,                     \* cropDocumentFromFile alone: calls made so far
  cResult,                    \* cropDocumentFromFile alone: how the promise settled
  rIn,                        \* rectifier: arguments of cropDocumentFromFile
  rOut,                       \* rectifier: what each call with rIn returned
  isCapturing,                \* CameraScreen.tsx:189 (committed React state)
  cap                         \* handleTakePhoto: its position, locals and effects

camVars == <<now, isRealtimeEnabledRef, isRealtimeDetectionEnabled,
             realtimeQueue, lastGoodRef, lastGoodTsRef, stableDetectedRef,
             detected, detectedQueue, render, jsQueue, fp,
             lastFrameProcessorCall, fed>>

detVars == <<dFrame, dDone, dResult, dCalls>>

prevVars == <<imageMeta, getSizePending, previewSize, quadOnImage, isCropping,
              cropError, croppedUri, previewQueue, crops>>

geoVars == <<gIn, gOut>>

editVars == <<editorSize, isEditing, editQuadView, editLog>>

cropVars == <<cIn, cPc, cTrace, cResult>>

rectVars == <<rIn, rOut>>

capVars == <<isCapturing, cap>>

extVars == <<geoVars, editVars, cropVars, rectVars, capVars>>

vars == <<camVars, detVars, prevVars, extVars>>

----------------------------------------------------------------------------
(* Bounds of the model *)

TickMs == 50          \* granularity of the clock
MaxNow == 450         \* the clock stops here
MaxPending == 1       \* cap on queued setDetected updates / posted calls

----------------------------------------------------------------------------
(* Program constants *)

HOLD_MS == 250        \* onQuadDetected
ALPHA == 35           \* onQuadDetected: 0.35, in hundredths
TARGET_FPS == 8       \* runAtTargetFps(8, ...)
SCALE_PCT == 25       \* frameProcessor: scale = 0.25, in hundredths
MIN_AREA_PCT == 8     \* minRectArea = width * height * 0.08
minAspect == 12       \* 1.2, in tenths
maxAspect == 23       \* 2.3, in tenths
AREA_WEIGHT == 7      \* score = contourArea * 0.7 + ..., in tenths
RECT_WEIGHT == 3      \* ... + rectArea * 0.3, in tenths
CHANNELS == 3         \* expected = width * height * 3

----------------------------------------------------------------------------
(* Data *)

Pt(x, y) == [x |-> x, y |-> y]

\* DetectedQuad = { quad, frameWidth, frameHeight } | null
NULL == [quad |-> <<>>, frameWidth |-> 0, frameHeight |-> 0]

HasQuad(d) == d.quad # <<>>

Max(a, b) == IF a >= b THEN a ELSE b
Min(a, b) == IF a <= b THEN a ELSE b

\* Math.round of the non-negative rational n / d
Round(n, d) == (2 * n + d) \div (2 * d)

----------------------------------------------------------------------------
(* Geometry utilities of CameraScreen *)

lerp(a, b, t) == a + ((b - a) * t) \div 100

smoothQuad(prev, next, alpha) ==
  [i \in 1..4 |-> Pt(lerp(prev[i].x, next[i].x, alpha),
                     lerp(prev[i].y, next[i].y, alpha))]

\* ratioX = fw / w and ratioY = fh / h
toQuadFromRect(rect, fw, w, fh, h) ==
  LET x1 == (rect.x * fw) \div w
      y1 == (rect.y * fh) \div h
      x2 == ((rect.x + rect.width) * fw) \div w
      y2 == ((rect.y + rect.height) * fh) \div h
  IN  <<Pt(x1, y1), Pt(x2, y1), Pt(x2, y2), Pt(x1, y2)>>

----------------------------------------------------------------------------
(* Candidate detector: stage S9 of frameProcessor.  A contour is what      *)
(* boundingRect and contourArea report for it.                             *)

Contour(x, y, w, h, a) ==
  [rect |-> [x |-> x, y |-> y, width |-> w, height |-> h], area |-> a]

scaledWidth(frame) == Max(1, Round(frame.width * SCALE_PCT, 100))
scaledHeight(frame) == Max(1, Round(frame.height * SCALE_PCT, 100))

rectAreaOf(c) == c.rect.width * c.rect.height

\* rectArea < minRectArea
tooSmall(c, width, height) == rectAreaOf(c) * 100 < width * height * MIN_AREA_PCT

\* aspect < minAspect || aspect > maxAspect
badAspect(c) ==
  LET long == Max(c.rect.width, c.rect.height)
      short == Min(c.rect.width, c.rect.height)
  IN  long * 10 < short * minAspect \/ long * 10 > short * maxAspect

\* mutant: the two weights exchanged
scoreOfSwapped(c) == c.area * RECT_WEIGHT + rectAreaOf(c) * AREA_WEIGHT

\* score, in tenths
scoreOf(c) == c.area * AREA_WEIGHT + rectAreaOf(c) * RECT_WEIGHT

RECURSIVE pickBest(_, _, _, _, _)
pickBest(contours, i, frame, bestScore, bestQuad) ==
  IF i > Len(contours) THEN bestQuad
  ELSE LET c == contours[i]
           width == scaledWidth(frame)
           height == scaledHeight(frame)
       IN  IF tooSmall(c, width, height) THEN pickBest(contours, i + 1, frame, bestScore, bestQuad)
           ELSE IF badAspect(c) THEN pickBest(contours, i + 1, frame, bestScore, bestQuad)
           ELSE IF scoreOf(c) > bestScore
                THEN pickBest(contours, i + 1, frame, scoreOf(c),
                              toQuadFromRect(c.rect, frame.width, width, frame.height, height))
                ELSE pickBest(contours, i + 1, frame, bestScore, bestQuad)

\* the payload handed to onQuadDetected at the end of the try block
detectPayload(frame) ==
  LET bestQuad == pickBest(frame.contours, 1, frame, 0, <<>>)
  IN  IF bestQuad # <<>>
      THEN [quad |-> bestQuad, frameWidth |-> frame.width, frameHeight |-> frame.height]
      ELSE NULL

----------------------------------------------------------------------------
(* Frames the camera can deliver in this model *)

cBig == Contour(10, 10, 80, 50, 3600)
cSmall == Contour(0, 0, 5, 5, 20)
cMid == Contour(20, 20, 60, 40, 2000)
cWide == Contour(20, 10, 120, 60, 6000)

Frame(w, h, cs, len, th) ==
  [width |-> w, height |-> h, contours |-> cs, resizedLen |-> len, throwsAt |-> th]

expectedLen(w, h) ==
  Max(1, Round(w * SCALE_PCT, 100)) * Max(1, Round(h * SCALE_PCT, 100)) * CHANNELS

CamFrames ==
  { Frame(400, 400, <<cBig, cSmall>>, expectedLen(400, 400), "none"),
    Frame(400, 400, <<cSmall>>, expectedLen(400, 400), "none"),
    Frame(400, 400, <<cMid>>, expectedLen(400, 400), "none"),
    Frame(800, 400, <<cWide>>, expectedLen(800, 400), "none"),
    Frame(400, 400, <<cBig>>, expectedLen(400, 400) - 1, "none"),
    Frame(400, 400, <<cBig>>, expectedLen(400, 400), "S8") }

----------------------------------------------------------------------------
(* Temporal stabilizer: the updater passed to setDetected by               *)
(* onQuadDetected.  prev is the pending value of `detected`; at is the     *)
(* Date.now() read by the onQuadDetected call that queued the updater.     *)

\* mutant: the comparison reversed
keepLastGoodReversed(lastGood, lastGoodTs, at) ==
  HasQuad(lastGood) /\ at - lastGoodTs > HOLD_MS

\* mutant: the window closed on the right
keepLastGoodInclusive(lastGood, lastGoodTs, at) ==
  HasQuad(lastGood) /\ at - lastGoodTs <= HOLD_MS

\* lastGoodRef.current && now - lastGoodTsRef.current < HOLD_MS
keepLastGood(lastGood, lastGoodTs, at) ==
  HasQuad(lastGood) /\ at - lastGoodTs < HOLD_MS

\* mutant: the frame size is not compared
canSmoothAnySize(prev, payload) == HasQuad(prev)

canSmooth(prev, payload) ==
  /\ HasQuad(prev)
  /\ prev.frameWidth = payload.frameWidth
  /\ prev.frameHeight = payload.frameHeight

nextPayload(prev, payload) ==
  IF canSmooth(prev, payload)
  THEN [quad |-> smoothQuad(prev.quad, payload.quad, ALPHA),
        frameWidth |-> payload.frameWidth,
        frameHeight |-> payload.frameHeight]
  ELSE payload

\* the writes of the non-null branch
accept(np, at) ==
  [out |-> np, lastGood |-> np, lastGoodTs |-> at, stable |-> np]

\* mutant: the non-null branch leaves lastGoodTsRef alone
stabilizeKeepsTs(prev, payload, at, lastGood, lastGoodTs, stable) ==
  IF ~HasQuad(payload)
  THEN IF keepLastGood(lastGood, lastGoodTs, at)
       THEN [out |-> lastGood, lastGood |-> lastGood, lastGoodTs |-> lastGoodTs, stable |-> stable]
       ELSE [out |-> NULL, lastGood |-> NULL, lastGoodTs |-> lastGoodTs, stable |-> stable]
  ELSE [accept(nextPayload(prev, payload), at) EXCEPT !.lastGoodTs = lastGoodTs]

stabilize(prev, payload, at, lastGood, lastGoodTs, stable) ==
  IF ~HasQuad(payload)
  THEN IF keepLastGood(lastGood, lastGoodTs, at)
       THEN [out |-> lastGood, lastGood |-> lastGood, lastGoodTs |-> lastGoodTs, stable |-> stable]
       ELSE [out |-> NULL, lastGood |-> NULL, lastGoodTs |-> lastGoodTs, stable |-> stable]
  ELSE accept(nextPayload(prev, payload), at)

\* a queued setDetected update: an updater with the values it closed over,
\* or a plain value
UpdFn(payload, at) ==
  [kind |-> "fn", payload |-> payload, at |-> at, value |-> NULL, stale |-> FALSE]
UpdVal(v) ==
  [kind |-> "val", payload |-> NULL, at |-> 0, value |-> v, stale |-> FALSE]

\* observer of the hysteresis scenario: the inputs given to the stabilizer
\* since detection was enabled, each with the time onQuadDetected read and
\* the value its updater returned, for as long as the inputs follow the
\* pattern [quadA, null, null, quadA]
FedOff == [on |-> FALSE, seq |-> <<>>]
FedStart == [on |-> TRUE, seq |-> <<>>]

followsPattern(seq, payload) ==
  CASE Len(seq) = 0 -> HasQuad(payload)
    [] Len(seq) \in {1, 2} -> ~HasQuad(payload)
    [] Len(seq) = 3 -> payload = seq[1].in
    [] OTHER -> FALSE

record(f, payload, at, out) ==
  IF ~f.on \/ Len(f.seq) = 4 THEN f
  ELSE IF followsPattern(f.seq, payload)
       THEN [f EXCEPT !.seq = Append(f.seq, [in |-> payload, at |-> at, out |-> out])]
       ELSE FedOff

----------------------------------------------------------------------------
(* Initial state: CameraScreen just mounted, detection off *)

InitCam ==
  /\ now = 0
  /\ isRealtimeEnabledRef = FALSE
  /\ isRealtimeDetectionEnabled = FALSE
  /\ realtimeQueue = <<>>
  /\ lastGoodRef = NULL
  /\ lastGoodTsRef = 0
  /\ stableDetectedRef = NULL
  /\ detected = NULL
  /\ detectedQueue = <<>>
  /\ render = [active |-> FALSE, acc |-> NULL]
  /\ jsQueue = <<>>
  /\ fp = <<>>
  /\ lastFrameProcessorCall = 0 - 1000 \div TARGET_FPS
  /\ fed = FedOff

----------------------------------------------------------------------------
(* The clock *)

Tick ==
  /\ now + TickMs <= MaxNow
  /\ now' = now + TickMs
  /\ UNCHANGED <<isRealtimeEnabledRef, isRealtimeDetectionEnabled, realtimeQueue,
                 lastGoodRef, lastGoodTsRef, stableDetectedRef, detected,
                 detectedQueue, render, jsQueue, fp, lastFrameProcessorCall, fed>>
  /\ UNCHANGED <<detVars, prevVars, extVars>>

----------------------------------------------------------------------------
(* Frame-processor thread *)

\* mutant: only the target interval is checked
acceptFrameWhileRunning(running, t, last) ==
  t - last >= 1000 \div TARGET_FPS

\* runAtTargetFps(8, ...) inside a synchronous worklet: the body runs for a
\* frame only if the thread is not still running the body for an earlier
\* frame and the target interval has passed since the last accepted run
acceptFrame(running, t, last) ==
  running = <<>> /\ t - last >= 1000 \div TARGET_FPS

\* the camera delivers a frame to frameProcessor (the prop is attached only
\* while the committed isRealtimeDetectionEnabled is true)
frameProcessor ==
  /\ isRealtimeDetectionEnabled
  /\ Len(jsQueue) < MaxPending
  /\ \E frame \in CamFrames :
       IF acceptFrame(fp, now, lastFrameProcessorCall)
       THEN /\ lastFrameProcessorCall' = now
            /\ fp' = Append(fp, frame)
       ELSE UNCHANGED <<lastFrameProcessorCall, fp>>
  /\ UNCHANGED <<now, isRealtimeEnabledRef, isRealtimeDetectionEnabled,
                 realtimeQueue, lastGoodRef, lastGoodTsRef, stableDetectedRef,
                 detected, detectedQueue, render, jsQueue, fed>>
  /\ UNCHANGED <<detVars, prevVars, extVars>>

\* what the try / catch / finally of one analysis posts to the JS thread
analysisPosts(frame) ==
  IF frame.throwsAt \in {"S1", "S2"} THEN <<>>
  ELSE IF frame.resizedLen < scaledWidth(frame) * scaledHeight(frame) * CHANNELS THEN <<>>
  ELSE IF frame.throwsAt # "none" THEN <<>>
  ELSE <<detectPayload(frame)>>

\* the analysis of the frame in progress runs to its end
frameProcessorEnd ==
  /\ fp # <<>>
  /\ jsQueue' = jsQueue \o analysisPosts(Head(fp))
  /\ fp' = Tail(fp)
  /\ UNCHANGED <<now, isRealtimeEnabledRef, isRealtimeDetectionEnabled,
                 realtimeQueue, lastGoodRef, lastGoodTsRef, stableDetectedRef,
                 detected, detectedQueue, render, lastFrameProcessorCall, fed>>
  /\ UNCHANGED <<detVars, prevVars, extVars>>

----------------------------------------------------------------------------
(* JS thread: onQuadDetected *)

\* the call is dropped by the guard on isRealtimeEnabledRef
onQuadDetectedIgnored ==
  /\ ~render.active
  /\ jsQueue # <<>>
  /\ ~isRealtimeEnabledRef
  /\ jsQueue' = Tail(jsQueue)
  /\ UNCHANGED <<now, isRealtimeEnabledRef, isRealtimeDetectionEnabled,
                 realtimeQueue, lastGoodRef, lastGoodTsRef, stableDetectedRef,
                 detected, detectedQueue, render, fp, lastFrameProcessorCall, fed>>
  /\ UNCHANGED <<detVars, prevVars, extVars>>

\* setDetected(updater) with no update pending on the component: React
\* computes the updater at once and queues its result
onQuadDetectedEager ==
  /\ ~render.active
  /\ jsQueue # <<>>
  /\ isRealtimeEnabledRef
  /\ detectedQueue = <<>> /\ realtimeQueue = <<>>
  /\ LET payload == Head(jsQueue)
         r == stabilize(detected, payload, now, lastGoodRef, lastGoodTsRef, stableDetectedRef)
     IN  /\ lastGoodRef' = r.lastGood
         /\ lastGoodTsRef' = r.lastGoodTs
         /\ stableDetectedRef' = r.stable
         /\ detectedQueue' = <<UpdVal(r.out)>>
         /\ fed' = record(fed, payload, now, r.out)
  /\ jsQueue' = Tail(jsQueue)
  /\ UNCHANGED <<now, isRealtimeEnabledRef, isRealtimeDetectionEnabled,
                 realtimeQueue, detected, render, fp, lastFrameProcessorCall>>
  /\ UNCHANGED <<detVars, prevVars, extVars>>

\* setDetected(updater) queued behind the pending work of the component;
\* the updater runs in the next render pass
onQuadDetectedQueued ==
  /\ ~render.active
  /\ jsQueue # <<>>
  /\ isRealtimeEnabledRef
  /\ Len(detectedQueue) < MaxPending
  /\ detectedQueue' = Append(detectedQueue, UpdFn(Head(jsQueue), now))
  /\ jsQueue' = Tail(jsQueue)
  /\ UNCHANGED <<now, isRealtimeEnabledRef, isRealtimeDetectionEnabled,
                 realtimeQueue, lastGoodRef, lastGoodTsRef, stableDetectedRef,
                 detected, render, fp, lastFrameProcessorCall, fed>>
  /\ UNCHANGED <<detVars, prevVars, extVars>>

----------------------------------------------------------------------------
(* JS thread: the Detecção toggle *)

markStale(q) == [i \in 1..Len(q) |-> [q[i] EXCEPT !.stale = TRUE]]

\* handleToggleRealtime -> setRealtimeEnabled(next) -> resetDetection
handleToggleRealtime ==
  /\ ~render.active
  /\ Len(detectedQueue) <= MaxPending
  /\ LET next == ~isRealtimeEnabledRef
     IN  /\ isRealtimeEnabledRef' = next
         /\ realtimeQueue' = <<next>>
         /\ IF ~next
            THEN /\ lastGoodRef' = NULL
                 /\ lastGoodTsRef' = 0
                 /\ stableDetectedRef' = NULL
                 /\ detectedQueue' = Append(markStale(detectedQueue), UpdVal(NULL))
            ELSE UNCHANGED <<lastGoodRef, lastGoodTsRef, stableDetectedRef, detectedQueue>>
         /\ fed' = IF next THEN FedStart ELSE FedOff
  /\ UNCHANGED <<now, isRealtimeDetectionEnabled, detected, render, jsQueue, fp,
                 lastFrameProcessorCall>>
  /\ UNCHANGED <<detVars, prevVars, extVars>>

----------------------------------------------------------------------------
(* JS thread: one render pass of CameraScreen.  The queued setDetected     *)
(* updates are applied in order, then the result is committed.             *)

renderUpdate ==
  /\ detectedQueue # <<>>
  /\ LET u == Head(detectedQueue)
         prev == IF render.active THEN render.acc ELSE detected
     IN  IF u.kind = "val"
         THEN /\ render' = [active |-> TRUE, acc |-> u.value]
              /\ UNCHANGED <<lastGoodRef, lastGoodTsRef, stableDetectedRef, fed>>
         ELSE LET r == stabilize(prev, u.payload, u.at, lastGoodRef, lastGoodTsRef, stableDetectedRef)
              IN  /\ render' = [active |-> TRUE, acc |-> r.out]
                  /\ lastGoodRef' = r.lastGood
                  /\ lastGoodTsRef' = r.lastGoodTs
                  /\ stableDetectedRef' = r.stable
                  /\ fed' = IF u.stale THEN fed ELSE record(fed, u.payload, u.at, r.out)
  /\ detectedQueue' = Tail(detectedQueue)
  /\ UNCHANGED <<now, isRealtimeEnabledRef, isRealtimeDetectionEnabled,
                 realtimeQueue, detected, jsQueue, fp, lastFrameProcessorCall>>
  /\ UNCHANGED <<detVars, prevVars, extVars>>

renderCommit ==
  /\ detectedQueue = <<>>
  /\ render.active \/ realtimeQueue # <<>>
  /\ detected' = IF render.active THEN render.acc ELSE detected
  /\ isRealtimeDetectionEnabled' =
       IF realtimeQueue # <<>> THEN realtimeQueue[Len(realtimeQueue)]
       ELSE isRealtimeDetectionEnabled
  /\ realtimeQueue' = <<>>
  /\ render' = [active |-> FALSE, acc |-> NULL]
  /\ UNCHANGED <<now, isRealtimeEnabledRef, lastGoodRef, lastGoodTsRef,
                 stableDetectedRef, detectedQueue, jsQueue, fp,
                 lastFrameProcessorCall, fed>>
  /\ UNCHANGED <<detVars, prevVars, extVars>>

----------------------------------------------------------------------------
(* The candidate detector alone: stage S9 applied to frames whose contours *)
(* are drawn from a library covering both filters at and around their      *)
(* thresholds.                                                             *)

MaxContours == 2

cHollow == Contour(5, 5, 90, 60, 500)
cTall == Contour(10, 10, 50, 80, 3500)
cSquare == Contour(10, 10, 60, 60, 3000)
cAreaAt == Contour(0, 0, 40, 20, 700)
cAreaBelow == Contour(0, 0, 39, 20, 700)
cAspectLo == Contour(0, 0, 60, 50, 2500)
cAspectLoOut == Contour(0, 0, 59, 50, 2500)
cAspectHi == Contour(0, 0, 92, 40, 3000)
cAspectHiOut == Contour(0, 0, 93, 40, 3000)

ContourLib ==
  { cBig, cSmall, cMid, cWide, cHollow, cTall, cSquare, cAreaAt, cAreaBelow,
    cAspectLo, cAspectLoOut, cAspectHi, cAspectHiOut }

ContourLists ==
  UNION { [1..n -> ContourLib] : n \in 0..MaxContours }

DetFrameSizes == { <<400, 400>>, <<800, 400>>, <<400, 240>> }

DetFrames ==
  { Frame(sz[1], sz[2], cs, expectedLen(sz[1], sz[2]), "none") :
      sz \in DetFrameSizes, cs \in ContourLists }

InitDet ==
  /\ dFrame \in DetFrames
  /\ dDone = FALSE
  /\ dResult = NULL
  /\ dCalls = <<>>

\* no frame is being analysed on its own
InitDetIdle ==
  /\ dFrame = Frame(400, 400, <<>>, expectedLen(400, 400), "none")
  /\ dDone = FALSE
  /\ dResult = NULL
  /\ dCalls = <<>>

\* the OpenCV stages of the try block, in order
OcvStages == <<"S3", "S4", "S5", "S6", "S7", "S8", "S9">>

\* the stages entered before the analysis leaves its try block
stagesRun(frame) ==
  IF frame.throwsAt \in {"S1", "S2"} THEN <<>>
  ELSE IF frame.resizedLen < scaledWidth(frame) * scaledHeight(frame) * CHANNELS THEN <<>>
  ELSE IF frame.throwsAt = "none" THEN OcvStages
  ELSE SubSeq(OcvStages, 1, CHOOSE k \in 1..Len(OcvStages) : OcvStages[k] = frame.throwsAt)

\* try { S1..S9 } catch { log } finally { OpenCV.clearBuffers() }
analysisCalls(frame) == stagesRun(frame) \o <<"clearBuffers">>

\* one analysis from S1 to the end of its finally block
detectFrame ==
  /\ ~dDone
  /\ dDone' = TRUE
  /\ dResult' = IF analysisPosts(dFrame) = <<>> THEN NULL ELSE analysisPosts(dFrame)[1]
  /\ dCalls' = analysisCalls(dFrame)
  /\ UNCHANGED <<dFrame, camVars, prevVars, extVars>>

\* the camera delivers the next frame
detectNextFrame ==
  /\ dDone
  /\ dFrame' \in DetFrames
  /\ dDone' = FALSE
  /\ dResult' = NULL
  /\ dCalls' = <<>>
  /\ UNCHANGED <<camVars, prevVars, extVars>>

----------------------------------------------------------------------------
(* Exact numbers.  The coordinate transforms divide by image and view      *)
(* sizes, so their results are kept as fractions n/d in lowest terms with  *)
(* d > 0; equality of fractions is then equality of records.  A zero       *)
(* denominator stands for the non-finite values of a JavaScript number:    *)
(* 1/0 is Infinity, -1/0 is -Infinity and 0/0 is NaN.                      *)

Abs(n) == IF n < 0 THEN 0 - n ELSE n

RECURSIVE GCD(_, _)
GCD(a, b) == IF b = 0 THEN a ELSE GCD(b, a % b)

Sign(n) == IF n < 0 THEN 0 - 1 ELSE IF n > 0 THEN 1 ELSE 0

Rat(n, d) ==
  IF d = 0 THEN [n |-> Sign(n), d |-> 0]
  ELSE LET g == GCD(Abs(n), Abs(d))
       IN  [n |-> (Sign(d) * n) \div g, d |-> Abs(d) \div g]

Num(i) == [n |-> i, d |-> 1]

Add(a, b) == Rat(a.n * b.d + b.n * a.d, a.d * b.d)
Sub(a, b) == Rat(a.n * b.d - b.n * a.d, a.d * b.d)
Mul(a, b) == Rat(a.n * b.n, a.d * b.d)
Div(a, b) == Rat(a.n * b.d, a.d * b.n)

Lt(a, b) == a.n * b.d < b.n * a.d
Le(a, b) == a.n * b.d <= b.n * a.d

\* Math.max, Math.min
MathMax(a, b) == IF Lt(a, b) THEN b ELSE a
MathMin(a, b) == IF Lt(b, a) THEN b ELSE a

\* the same point, its coordinates as fractions
numPoint(p) == [x |-> Num(p.x), y |-> Num(p.y)]
numQuad(q) == [i \in 1..Len(q) |-> numPoint(q[i])]

----------------------------------------------------------------------------
(* PreviewScreen, opened by a capture made with live detection off: the    *)
(* route params carry only the uri, so rawPhotoMeta is null and there is   *)
(* no incoming quad.                                                       *)

MaxCrops == 2         \* cap on cropDocumentFromFile calls in flight

NoMeta == [width |-> 0, height |-> 0]
NoQuad == <<>>
NoSize == [w |-> 0, h |-> 0]

ImageSizes == { [width |-> 400, height |-> 300], [width |-> 300, height |-> 400] }
PreviewLayouts == { [w |-> 200, h |-> 300], [w |-> 300, h |-> 200] }

\* pts.reduce((a, b) => (better(b, a) ? b : a)) on the four points
orderQuadTLTRBRBL(quad) ==
  LET reduceQuad(pts, better(_, _)) ==
        LET a1 == IF better(pts[2], pts[1]) THEN pts[2] ELSE pts[1]
            a2 == IF better(pts[3], a1) THEN pts[3] ELSE a1
        IN  IF better(pts[4], a2) THEN pts[4] ELSE a2
      sum(p) == Add(p.x, p.y)
      diff(p) == Sub(p.x, p.y)
      tl == reduceQuad(quad, LAMBDA b, a : Lt(sum(b), sum(a)))
      br == reduceQuad(quad, LAMBDA b, a : Lt(sum(a), sum(b)))
      tr == reduceQuad(quad, LAMBDA b, a : Lt(diff(a), diff(b)))
      bl == reduceQuad(quad, LAMBDA b, a : Lt(diff(b), diff(a)))
  IN  <<tl, tr, br, bl>>

\* insets of 8% of each side
buildFallbackQuadOnImage(img) ==
  LET insetX == Rat(img.width * 8, 100)
      insetY == Rat(img.height * 8, 100)
      w == Num(img.width)
      h == Num(img.height)
  IN  <<Pt(insetX, insetY), Pt(Sub(w, insetX), insetY),
        Pt(Sub(w, insetX), Sub(h, insetY)), Pt(insetX, Sub(h, insetY))>>

\* previewDisplayRect is not null
hasPreviewDisplayRect(meta, size) ==
  meta # NoMeta /\ size.w > 0 /\ size.h > 0

----------------------------------------------------------------------------
(* Coordinate transforms.  Sizes are integers (pixels); points carry       *)
(* fractions, except the points of a detected quad, which are the integer  *)
(* frame pixels of the detector.                                           *)

Size(w, h) == [width |-> w, height |-> h]

\* CameraScreen: Frame -> View
CAMERA_RESIZE_MODE == "contain"

normalizePointForPortrait(p, frameSize, viewSize) ==
  LET isFrameLandscape == frameSize.width > frameSize.height
      isViewPortrait == viewSize.height > viewSize.width
  IN  IF isFrameLandscape /\ isViewPortrait
      THEN [point |-> Pt(frameSize.height - p.y, p.x),
            normalizedFrameSize |-> Size(frameSize.height, frameSize.width)]
      ELSE [point |-> p, normalizedFrameSize |-> frameSize]

\* mutant: contain scales by the larger ratio
fitScaleSwapped(sx, sy, resizeMode) ==
  IF resizeMode = "cover" THEN MathMin(sx, sy) ELSE MathMax(sx, sy)

\* scale of mapPointToView
fitScale(sx, sy, resizeMode) ==
  IF resizeMode = "cover" THEN MathMax(sx, sy) ELSE MathMin(sx, sy)

mapPointToView(p, frameSize, viewSize, resizeMode) ==
  LET n == normalizePointForPortrait(p, frameSize, viewSize)
      nfs == n.normalizedFrameSize
      sx == Rat(viewSize.width, nfs.width)
      sy == Rat(viewSize.height, nfs.height)
      scale == fitScale(sx, sy, resizeMode)
      offsetX == Div(Sub(Num(viewSize.width), Mul(Num(nfs.width), scale)), Num(2))
      offsetY == Div(Sub(Num(viewSize.height), Mul(Num(nfs.height), scale)), Num(2))
  IN  Pt(Add(Mul(Num(n.point.x), scale), offsetX),
         Add(Mul(Num(n.point.y), scale), offsetY))

\* the useMemo of mappedQuad; NoQuad is its null
mappedQuad(det, viewSize) ==
  IF ~HasQuad(det) THEN NoQuad
  ELSE IF viewSize.width = 0 \/ viewSize.height = 0 THEN NoQuad
  ELSE [i \in 1..4 |->
          mapPointToView(det.quad[i], Size(det.frameWidth, det.frameHeight),
                         viewSize, CAMERA_RESIZE_MODE)]

\* PreviewScreen: RAW <-> DISPLAY
SWAPPED_ROTATION == "ccw"
TOLERANCE == 2

rotatePointForSwappedSize(p, raw, mode) ==
  IF mode = "cw" THEN Pt(p.y, Sub(Num(raw.width), p.x))
  ELSE Pt(Sub(Num(raw.height), p.y), p.x)

almostEqual(a, b) == Abs(a - b) <= TOLERANCE

isSwappedSize(a, b) == almostEqual(a.width, b.height) /\ almostEqual(a.height, b.width)

\* mutant: the swapped-size test comes first
mapPointRawToDisplaySwapFirst(p, raw, display) ==
  IF isSwappedSize(raw, display) THEN rotatePointForSwappedSize(p, raw, SWAPPED_ROTATION)
  ELSE IF almostEqual(raw.width, display.width) /\ almostEqual(raw.height, display.height)
  THEN p
  ELSE Pt(Mul(p.x, Rat(display.width, raw.width)), Mul(p.y, Rat(display.height, raw.height)))

mapPointRawToDisplay(p, raw, display) ==
  IF almostEqual(raw.width, display.width) /\ almostEqual(raw.height, display.height)
  THEN p
  ELSE IF isSwappedSize(raw, display)
  THEN rotatePointForSwappedSize(p, raw, SWAPPED_ROTATION)
  ELSE Pt(Mul(p.x, Rat(display.width, raw.width)), Mul(p.y, Rat(display.height, raw.height)))

mapQuadRawToDisplay(quad, raw, display) ==
  [i \in 1..4 |-> mapPointRawToDisplay(quad[i], raw, display)]

\* mutant: the inverse of the cw rotation is used for both modes
rotatePointDisplayToRawCwOnly(p, raw, mode) ==
  Pt(Sub(Num(raw.width), p.y), p.x)

rotatePointDisplayToRawForSwappedSize(p, raw, mode) ==
  IF mode = "cw" THEN Pt(Sub(Num(raw.width), p.y), p.x)
  ELSE Pt(p.y, Sub(Num(raw.height), p.x))

mapPointDisplayToRaw(p, raw, display) ==
  IF almostEqual(raw.width, display.width) /\ almostEqual(raw.height, display.height)
  THEN p
  ELSE IF isSwappedSize(raw, display)
  THEN rotatePointDisplayToRawForSwappedSize(p, raw, SWAPPED_ROTATION)
  ELSE Pt(Mul(p.x, Rat(raw.width, display.width)), Mul(p.y, Rat(raw.height, display.height)))

mapQuadDisplayToRaw(quad, raw, display) ==
  [i \in 1..4 |-> mapPointDisplayToRaw(quad[i], raw, display)]

flipQuadYInDisplay(quad, display) ==
  [i \in 1..4 |-> Pt(quad[i].x, Sub(Num(display.height), quad[i].y))]

needsVerticalFlip(quad) == Lt(quad[4].y, quad[1].y)

scaleQuad(quad, from, to) ==
  [i \in 1..4 |-> Pt(Mul(quad[i].x, Rat(to.width, from.width)),
                     Mul(quad[i].y, Rat(to.height, from.height)))]

clamp(v, min, max) == MathMax(min, MathMin(max, v))

\* PreviewScreen: image <-> view (letterboxed display rect)
computeDisplayRect(containerW, containerH, img) ==
  LET scale == MathMin(Rat(containerW, img.width), Rat(containerH, img.height))
      width == Mul(Num(img.width), scale)
      height == Mul(Num(img.height), scale)
  IN  [x |-> Div(Sub(Num(containerW), width), Num(2)),
       y |-> Div(Sub(Num(containerH), height), Num(2)),
       width |-> width, height |-> height, scale |-> scale]

imageToView(p, rect) ==
  Pt(Add(rect.x, Mul(p.x, rect.scale)), Add(rect.y, Mul(p.y, rect.scale)))

viewToImage(p, rect) ==
  Pt(Div(Sub(p.x, rect.x), rect.scale), Div(Sub(p.y, rect.y), rect.scale))

\* mutant: the point is passed through
clampToDisplayOff(p, rect) == p

clampToDisplay(p, rect) ==
  Pt(clamp(p.x, rect.x, Add(rect.x, rect.width)),
     clamp(p.y, rect.y, Add(rect.y, rect.height)))

quadImageToView(quad, rect) == [i \in 1..4 |-> imageToView(quad[i], rect)]

quadViewToImage(quad, rect) == [i \in 1..4 |-> viewToImage(quad[i], rect)]

\* a queued state update of PreviewScreen
\* normalizeQuad: null unless four points, then ordered
normalizeQuad(quad) ==
  IF Len(quad) # 4 THEN NoQuad ELSE orderQuadTLTRBRBL(quad)

\* the useMemo of incomingQuadOnImage for the params CameraScreen sends
\* (quad, frameSize; no quadPhoto); NoMeta is a null size
incomingQuadOnImage(params, rawPhotoMeta, meta) ==
  LET rawNormalized == normalizeQuad(params.quad)
      quadRaw ==
        IF params.frameSize # NoMeta /\ rawPhotoMeta # NoMeta
        THEN orderQuadTLTRBRBL(scaleQuad(rawNormalized, params.frameSize, rawPhotoMeta))
        ELSE orderQuadTLTRBRBL(rawNormalized)
      mapped == orderQuadTLTRBRBL(mapQuadRawToDisplay(quadRaw, rawPhotoMeta, meta))
  IN  IF rawNormalized = NoQuad THEN NoQuad
      ELSE IF rawPhotoMeta # NoMeta /\ meta # NoMeta
      THEN IF needsVerticalFlip(mapped)
           THEN orderQuadTLTRBRBL(flipQuadYInDisplay(mapped, meta))
           ELSE mapped
      ELSE quadRaw

\* handleConfirm: the quad handed to cropDocumentFromFile
quadForCrop(quad, rawPhotoMeta, meta) ==
  IF rawPhotoMeta # NoMeta /\ meta # NoMeta
  THEN LET mapped == mapQuadDisplayToRaw(quad, rawPhotoMeta, meta)
           clamped == [i \in 1..4 |->
                         Pt(clamp(mapped[i].x, Num(0), Num(rawPhotoMeta.width)),
                            clamp(mapped[i].y, Num(0), Num(rawPhotoMeta.height)))]
       IN  orderQuadTLTRBRBL(clamped)
  ELSE quad

\* handleConfirm: the rotate option handed to cropDocumentFromFile
outputRotate(rawPhotoMeta, meta) ==
  IF rawPhotoMeta # NoMeta /\ meta # NoMeta /\ isSwappedSize(rawPhotoMeta, meta)
  THEN SWAPPED_ROTATION
  ELSE "none"

\* handleSaveCorners: the quad stored in quadOnImage
savedCorners(quadView, rect, meta) ==
  LET raw == quadViewToImage(quadView, rect)
      rawQuadOnImage == [i \in 1..4 |-> Pt(clamp(raw[i].x, Num(0), Num(meta.width)),
                                           clamp(raw[i].y, Num(0), Num(meta.height)))]
  IN  orderQuadTLTRBRBL(rawQuadOnImage)

\* mutant: the loop ends on the last point whatever the keys
firstMinLast(keys) == Len(keys)

\* cropDocument: the loops of orderQuad keep the first extreme they meet
firstMin(keys) ==
  CHOOSE i \in 1..Len(keys) :
    /\ \A j \in 1..Len(keys) : Le(keys[i], keys[j])
    /\ \A j \in 1..(i - 1) : Lt(keys[i], keys[j])

\* mutant: the comparison is >=, so the last of equal maxima is kept
lastMax(keys) ==
  CHOOSE i \in 1..Len(keys) :
    /\ \A j \in 1..Len(keys) : Le(keys[j], keys[i])
    /\ \A j \in (i + 1)..Len(keys) : Lt(keys[j], keys[i])

firstMax(keys) ==
  CHOOSE i \in 1..Len(keys) :
    /\ \A j \in 1..Len(keys) : Le(keys[j], keys[i])
    /\ \A j \in 1..(i - 1) : Lt(keys[j], keys[i])

\* cropDocument orderQuad, on a quad of at least one point
orderQuad(quad) ==
  LET sum == [i \in 1..Len(quad) |-> Add(quad[i].x, quad[i].y)]
      diff == [i \in 1..Len(quad) |-> Sub(quad[i].y, quad[i].x)]
  IN  <<quad[firstMin(sum)], quad[firstMin(diff)], quad[firstMax(sum)], quad[firstMax(diff)]>>

SetImageMeta(m) == [hook |-> "imageMeta", meta |-> m, size |-> NoSize, quad |-> NoQuad, flag |-> FALSE]
SetPreviewSize(sz) == [hook |-> "previewSize", meta |-> NoMeta, size |-> sz, quad |-> NoQuad, flag |-> FALSE]
SetQuadOnImage(q) == [hook |-> "quadOnImage", meta |-> NoMeta, size |-> NoSize, quad |-> q, flag |-> FALSE]
SetIsCropping(b) == [hook |-> "isCropping", meta |-> NoMeta, size |-> NoSize, quad |-> NoQuad, flag |-> b]
SetCropError(b) == [hook |-> "cropError", meta |-> NoMeta, size |-> NoSize, quad |-> NoQuad, flag |-> b]
SetCroppedUri(b) == [hook |-> "croppedUri", meta |-> NoMeta, size |-> NoSize, quad |-> NoQuad, flag |-> b]

InitPrev ==
  /\ imageMeta = NoMeta
  /\ getSizePending = TRUE
  /\ previewSize = NoSize
  /\ quadOnImage = NoQuad
  /\ isCropping = FALSE
  /\ cropError = FALSE
  /\ croppedUri = FALSE
  /\ previewQueue = <<>>
  /\ crops = <<>>

\* PreviewScreen is not mounted
InitPrevIdle ==
  /\ imageMeta = NoMeta
  /\ getSizePending = FALSE
  /\ previewSize = NoSize
  /\ quadOnImage = NoQuad
  /\ isCropping = FALSE
  /\ cropError = FALSE
  /\ croppedUri = FALSE
  /\ previewQueue = <<>>
  /\ crops = <<>>

\* Image.getSize answers with the size the image is rendered at
getSizeSuccess ==
  /\ getSizePending
  /\ getSizePending' = FALSE
  /\ \E m \in ImageSizes : previewQueue' = Append(previewQueue, SetImageMeta(m))
  /\ UNCHANGED <<imageMeta, previewSize, quadOnImage, isCropping, cropError,
                 croppedUri, crops>>
  /\ UNCHANGED <<camVars, detVars, extVars>>

\* Image.getSize fails: setImageMeta(rawPhotoMeta), which is null here
getSizeFailure ==
  /\ getSizePending
  /\ getSizePending' = FALSE
  /\ previewQueue' = Append(previewQueue, SetImageMeta(NoMeta))
  /\ UNCHANGED <<imageMeta, previewSize, quadOnImage, isCropping, cropError,
                 croppedUri, crops>>
  /\ UNCHANGED <<camVars, detVars, extVars>>

onPreviewLayout ==
  /\ Len(previewQueue) < MaxPending
  /\ \E sz \in PreviewLayouts : previewQueue' = Append(previewQueue, SetPreviewSize(sz))
  /\ UNCHANGED <<imageMeta, getSizePending, previewSize, quadOnImage, isCropping,
                 cropError, croppedUri, crops>>
  /\ UNCHANGED <<camVars, detVars, extVars>>

\* the state of PreviewScreen after the queued updates, applied in order
RECURSIVE applyUpdates(_, _)
applyUpdates(st, q) ==
  IF q = <<>> THEN st
  ELSE LET u == Head(q)
           st2 == CASE u.hook = "imageMeta" -> [st EXCEPT !.imageMeta = u.meta]
                    [] u.hook = "previewSize" -> [st EXCEPT !.previewSize = u.size]
                    [] u.hook = "quadOnImage" -> [st EXCEPT !.quadOnImage = u.quad]
                    [] u.hook = "isCropping" -> [st EXCEPT !.isCropping = u.flag]
                    [] u.hook = "cropError" -> [st EXCEPT !.cropError = u.flag]
                    [] u.hook = "croppedUri" -> [st EXCEPT !.croppedUri = u.flag]
       IN  applyUpdates(st2, Tail(q))

\* one render of PreviewScreen, then its effects: the effect on
\* [previewDisplayRect, imageMeta, incomingQuadOnImage] stores the fallback quad
previewRender ==
  /\ previewQueue # <<>>
  /\ LET st == applyUpdates([imageMeta |-> imageMeta, previewSize |-> previewSize,
                             quadOnImage |-> quadOnImage, isCropping |-> isCropping,
                             cropError |-> cropError, croppedUri |-> croppedUri],
                            previewQueue)
         depsChanged ==
           \/ \E i \in 1..Len(previewQueue) : previewQueue[i].hook = "imageMeta"
           \/ st.previewSize # previewSize
     IN  /\ imageMeta' = st.imageMeta
         /\ previewSize' = st.previewSize
         /\ quadOnImage' = st.quadOnImage
         /\ isCropping' = st.isCropping
         /\ cropError' = st.cropError
         /\ croppedUri' = st.croppedUri
         /\ previewQueue' =
              IF depsChanged /\ hasPreviewDisplayRect(st.imageMeta, st.previewSize)
              THEN <<SetQuadOnImage(orderQuadTLTRBRBL(buildFallbackQuadOnImage(st.imageMeta)))>>
              ELSE <<>>
  /\ UNCHANGED <<getSizePending, crops>>
  /\ UNCHANGED <<camVars, detVars, extVars>>

\* mutant: the isCropping guard is missing
confirmAllowedWhileCropping(cropping, quad) == quad # NoQuad

\* the guards of handleConfirm (originalUri is set), on the values of the
\* render whose handler the press runs
confirmAllowed(cropping, quad) ==
  quad # NoQuad /\ ~cropping

\* a press on Recortar: handleConfirm up to its await.  The updates it
\* queues are rendered before the next press is handled.
handleConfirm ==
  /\ confirmAllowed(isCropping, quadOnImage)
  /\ Len(crops) < MaxCrops
  /\ isCropping' = TRUE
  /\ cropError' = FALSE
  /\ crops' = Append(crops, [quad |-> quadOnImage, rotate |-> "none", pc |-> "readFile"])
  /\ UNCHANGED <<imageMeta, getSizePending, previewSize, quadOnImage, croppedUri,
                 previewQueue>>
  /\ UNCHANGED <<camVars, detVars, extVars>>

remove(seq, i) == [j \in 1..(Len(seq) - 1) |-> IF j < i THEN seq[j] ELSE seq[j + 1]]

\* RNFS.readFile resolves; the warp runs up to the await of RNFS.writeFile
cropReadFile ==
  /\ \E i \in 1..Len(crops) :
       /\ crops[i].pc = "readFile"
       /\ crops' = [crops EXCEPT ![i].pc = "writeFile"]
  /\ UNCHANGED <<imageMeta, getSizePending, previewSize, quadOnImage, isCropping,
                 cropError, croppedUri, previewQueue>>
  /\ UNCHANGED <<camVars, detVars, extVars>>

\* RNFS.writeFile resolves: the call returns its result, handleConfirm
\* stores the uri and its finally block runs
cropWriteFile ==
  /\ \E i \in 1..Len(crops) :
       /\ crops[i].pc = "writeFile"
       /\ crops' = remove(crops, i)
  /\ previewQueue' = previewQueue \o <<SetCroppedUri(TRUE), SetIsCropping(FALSE)>>
  /\ UNCHANGED <<imageMeta, getSizePending, previewSize, quadOnImage, isCropping,
                 cropError, croppedUri>>
  /\ UNCHANGED <<camVars, detVars, extVars>>

\* the call rejects (read, decode, warp, encode or write): the catch and
\* finally blocks of handleConfirm run
cropFails ==
  /\ \E i \in 1..Len(crops) : crops' = remove(crops, i)
  /\ previewQueue' = previewQueue \o <<SetCropError(TRUE), SetIsCropping(FALSE)>>
  /\ UNCHANGED <<imageMeta, getSizePending, previewSize, quadOnImage, isCropping,
                 cropError, croppedUri>>
  /\ UNCHANGED <<camVars, detVars, extVars>>

----------------------------------------------------------------------------
(* The coordinate transforms alone: each is applied once to a quad and a   *)
(* pair of sizes.  `from` is the source space of the transform (frame,     *)
(* RAW file or image) and `to` its destination (view, photo or DISPLAY).   *)

GridMax == 2

GeoQuads ==
  { <<Pt(0, 0), Pt(10, 0), Pt(10, 10), Pt(0, 10)>>,
    <<Pt(10, 20), Pt(90, 20), Pt(90, 60), Pt(10, 60)>>,
    <<Pt(10, 10), Pt(90, 20), Pt(80, 70), Pt(20, 60)>> }

GeoSizes ==
  { Size(100, 100), Size(200, 200), Size(400, 300), Size(300, 400),
    Size(402, 300), Size(200, 300) }

\* twice the signed area of the turn a -> b -> c
cross(a, b, c) == (b.x - a.x) * (c.y - b.y) - (b.y - a.y) * (c.x - b.x)

\* q[1] -> q[2] -> q[3] -> q[4] -> q[1] turns the same way at every corner
Convex(q) ==
  LET t == <<cross(q[1], q[2], q[3]), cross(q[2], q[3], q[4]),
             cross(q[3], q[4], q[1]), cross(q[4], q[1], q[2])>>
  IN  \/ \A i \in 1..4 : t[i] > 0
      \/ \A i \in 1..4 : t[i] < 0

\* the side from a to b is at most (strict: less than) 45 degrees from the axis
Horizontal(a, b, strict) ==
  IF strict THEN Abs(b.y - a.y) < Abs(b.x - a.x) ELSE Abs(b.y - a.y) <= Abs(b.x - a.x)

Vertical(a, b, strict) ==
  IF strict THEN Abs(b.x - a.x) < Abs(b.y - a.y) ELSE Abs(b.x - a.x) <= Abs(b.y - a.y)

\* two opposite sides near the horizontal, the other two near the vertical
AxisAligned(q, strict) ==
  \/ /\ Horizontal(q[1], q[2], strict) /\ Vertical(q[2], q[3], strict)
     /\ Horizontal(q[3], q[4], strict) /\ Vertical(q[4], q[1], strict)
  \/ /\ Vertical(q[1], q[2], strict) /\ Horizontal(q[2], q[3], strict)
     /\ Vertical(q[3], q[4], strict) /\ Horizontal(q[4], q[1], strict)

GridPoints == { Pt(x, y) : x \in 0..GridMax, y \in 0..GridMax }

\* the quadrilaterals of the grid, their corners listed in any order around
GridQuads ==
  { q \in { <<a, b, c, d>> : a \in GridPoints, b \in GridPoints,
                             c \in GridPoints, d \in GridPoints } :
      Convex(q) /\ AxisAligned(q, FALSE) }

GeoInput(q, from, to, mode, resizeMode) ==
  [quad |-> q, from |-> from, to |-> to, mode |-> mode, resizeMode |-> resizeMode]

GeoInputs ==
  { GeoInput(q, from, to, mode, rm) :
      q \in GeoQuads, from \in GeoSizes, to \in GeoSizes,
      mode \in {"cw", "ccw"}, rm \in {"cover", "contain"} }
  \cup { GeoInput(q, Size(GridMax, GridMax), Size(GridMax, GridMax), "ccw", "contain") :
           q \in GridQuads }

GeoOut(op, mid, quad) == [op |-> op, mid |-> mid, quad |-> quad, rotate |-> "none"]

InitGeo ==
  /\ gIn \in GeoInputs
  /\ gOut = GeoOut("none", NoQuad, NoQuad)

InitGeoIdle ==
  /\ gIn = GeoInput(NoQuad, NoMeta, NoMeta, "ccw", "contain")
  /\ gOut = GeoOut("none", NoQuad, NoQuad)

\* the result of one transform is stored
geoApply(op, mid, quad) ==
  /\ gIn.quad # NoQuad
  /\ gOut.op = "none"
  /\ gOut' = GeoOut(op, mid, quad)
  /\ UNCHANGED <<gIn, camVars, detVars, prevVars, editVars, cropVars, rectVars, capVars>>

\* mapPointToView on each corner, in the resize mode given
applyMapPointToView ==
  geoApply("mapPointToView", NoQuad,
           [i \in 1..4 |-> mapPointToView(gIn.quad[i], gIn.from, gIn.to, gIn.resizeMode)])

\* CameraScreen: the overlay quad of a detection in the frame space `from`
applyMappedQuad ==
  geoApply("frameToView", NoQuad,
           mappedQuad([quad |-> gIn.quad, frameWidth |-> gIn.from.width,
                       frameHeight |-> gIn.from.height], gIn.to))

\* PreviewScreen before Image.getSize answers: frame -> photo scaling
applyFrameToPhoto ==
  geoApply("frameToPhoto", NoQuad,
           incomingQuadOnImage([quad |-> numQuad(gIn.quad), frameSize |-> gIn.from],
                               gIn.to, NoMeta))

\* PreviewScreen once imageMeta is known: RAW -> DISPLAY of a quad in RAW
applyRawToDisplay ==
  geoApply("rawToDisplay", NoQuad,
           incomingQuadOnImage([quad |-> numQuad(gIn.quad), frameSize |-> NoMeta],
                               gIn.from, gIn.to))

\* handleConfirm: DISPLAY -> RAW of the quad shown (RAW is `from`) and the
\* rotation asked of cropDocumentFromFile
applyQuadForCrop ==
  /\ gIn.quad # NoQuad
  /\ gOut.op = "none"
  /\ gOut' = [GeoOut("displayToRaw", NoQuad, quadForCrop(numQuad(gIn.quad), gIn.from, gIn.to))
                EXCEPT !.rotate = outputRotate(gIn.from, gIn.to)]
  /\ UNCHANGED <<gIn, camVars, detVars, prevVars, editVars, cropVars, rectVars, capVars>>

\* openEditor then handleSaveCorners: image -> view -> image, the image being
\* `from` and the editor container `to`
applySavedCorners ==
  LET rect == computeDisplayRect(gIn.to.width, gIn.to.height, gIn.from)
      quadView == quadImageToView(numQuad(gIn.quad), rect)
  IN  geoApply("viewToImage", quadView, savedCorners(quadView, rect, gIn.from))

applyOrderQuadTLTRBRBL ==
  geoApply("orderQuadTLTRBRBL", NoQuad, orderQuadTLTRBRBL(numQuad(gIn.quad)))

applyOrderQuad ==
  geoApply("orderQuad", NoQuad, orderQuad(numQuad(gIn.quad)))

\* handleConfirm orders the quad with orderQuadTLTRBRBL; cropDocumentFromFile
\* orders the quad it is given again with orderQuad
applyCropReorder ==
  LET mid == orderQuadTLTRBRBL(numQuad(gIn.quad))
  IN  geoApply("cropReorder", mid, orderQuad(mid))

\* mapQuadRawToDisplay, then mapQuadDisplayToRaw on its result
applyRawDisplayRaw ==
  LET mid == mapQuadRawToDisplay(numQuad(gIn.quad), gIn.from, gIn.to)
  IN  geoApply("rawDisplayRaw", mid, mapQuadDisplayToRaw(mid, gIn.from, gIn.to))

\* the rotation of the swapped-size branch and its inverse, in the mode given
applyRotateBack ==
  LET q == numQuad(gIn.quad)
      mid == [i \in 1..4 |-> rotatePointForSwappedSize(q[i], gIn.from, gIn.mode)]
  IN  geoApply("rotateBack", mid,
               [i \in 1..4 |-> rotatePointDisplayToRawForSwappedSize(mid[i], gIn.from, gIn.mode)])

\* quadImageToView, then quadViewToImage on its result
applyImageViewImage ==
  LET rect == computeDisplayRect(gIn.to.width, gIn.to.height, gIn.from)
      mid == quadImageToView(numQuad(gIn.quad), rect)
  IN  geoApply("imageViewImage", mid, quadViewToImage(mid, rect))

----------------------------------------------------------------------------
(* PreviewScreen: the corner editor.  The image is loaded and the fallback *)
(* quad is shown; each handler is taken with the render and the effects    *)
(* that follow it.                                                         *)

MaxDrags == 2

EditorLayouts == { [w |-> 300, h |-> 400], [w |-> 200, h |-> 200] }

\* positions a drag can ask for: startRef + (gesture.dx, gesture.dy)
DragTargets ==
  { Pt(Num(0 - 20), Num(0 - 5)), Pt(Num(150), Num(180)), Pt(Num(500), Num(600)) }

NoEdits == [written |-> {}, drags |-> 0, saved |-> FALSE, quad |-> NoQuad]

rectOf(size, meta) == computeDisplayRect(size.w, size.h, meta)

InitEdit ==
  /\ editorSize = NoSize
  /\ isEditing = FALSE
  /\ editQuadView = NoQuad
  /\ editLog = NoEdits

InitEditIdle == InitEdit

\* the screen as the editor finds it: image size known, layout done, the
\* fallback quad stored, no crop requested
InitPrevShown ==
  /\ imageMeta \in ImageSizes
  /\ getSizePending = FALSE
  /\ previewSize \in PreviewLayouts
  /\ quadOnImage = orderQuadTLTRBRBL(buildFallbackQuadOnImage(imageMeta))
  /\ isCropping = FALSE
  /\ cropError = FALSE
  /\ croppedUri = FALSE
  /\ previewQueue = <<>>
  /\ crops = <<>>

\* the effect on [editorDisplayRect, isEditing, quadOnImage]
editorEffect(editing, size, quad, meta, current) ==
  IF editing /\ quad # NoQuad /\ size # NoSize
  THEN quadImageToView(quad, rectOf(size, meta))
  ELSE current

\* a press on "Editar quinas"
openEditor ==
  /\ ~isEditing
  /\ quadOnImage # NoQuad
  /\ hasPreviewDisplayRect(imageMeta, previewSize)
  /\ isEditing' = TRUE
  /\ editQuadView' =
       editorEffect(TRUE, editorSize, quadOnImage, imageMeta,
                    quadImageToView(quadOnImage, rectOf(previewSize, imageMeta)))
  /\ editLog' = [editLog EXCEPT !.written = {}]
  /\ UNCHANGED <<editorSize, prevVars, camVars, detVars, geoVars, cropVars, rectVars, capVars>>

\* the modal card is laid out
onEditorLayout ==
  /\ isEditing
  /\ \E size \in EditorLayouts :
       /\ size # editorSize
       /\ editorSize' = size
       /\ editQuadView' = editorEffect(isEditing, size, quadOnImage, imageMeta, editQuadView)
  /\ editLog' = [editLog EXCEPT !.written = {}]
  /\ UNCHANGED <<isEditing, prevVars, camVars, detVars, geoVars, cropVars, rectVars, capVars>>

\* a move of the handle of one corner
updateEditPoint ==
  /\ isEditing
  /\ editorSize # NoSize
  /\ editQuadView # NoQuad
  /\ editLog.drags < MaxDrags
  /\ \E index \in 1..4, next \in DragTargets :
       /\ editQuadView' =
            [editQuadView EXCEPT ![index] = clampToDisplay(next, rectOf(editorSize, imageMeta))]
       /\ editLog' = [editLog EXCEPT !.written = @ \cup {index}, !.drags = @ + 1]
  /\ UNCHANGED <<editorSize, isEditing, prevVars, camVars, detVars, geoVars, cropVars, rectVars, capVars>>

\* a press on "Salvar"
handleSaveCorners ==
  /\ isEditing
  /\ editorSize # NoSize
  /\ editQuadView # NoQuad
  /\ quadOnImage' = savedCorners(editQuadView, rectOf(editorSize, imageMeta), imageMeta)
  /\ isEditing' = FALSE
  /\ editLog' = [editLog EXCEPT !.saved = TRUE, !.quad = quadOnImage']
  /\ UNCHANGED <<editorSize, editQuadView, imageMeta, getSizePending, previewSize,
                 isCropping, cropError, croppedUri, previewQueue, crops>>
  /\ UNCHANGED <<camVars, detVars, geoVars, cropVars, rectVars, capVars>>

\* a press on "Cancelar", or the modal is dismissed
cancelEditing ==
  /\ isEditing
  /\ isEditing' = FALSE
  /\ UNCHANGED <<editorSize, editQuadView, editLog, prevVars, camVars, detVars,
                 geoVars, cropVars, rectVars, capVars>>

----------------------------------------------------------------------------
(* cropDocumentFromFile alone, from its call to the settling of its        *)
(* promise.  A quad is any array the caller passes: points may lack a      *)
(* coordinate and coordinates may be non-finite.  `fails` names the one    *)
(* call that throws or rejects when it is made, if any.                    *)

NaN == [n |-> 0, d |-> 0]
Infinity == [n |-> 1, d |-> 0]
NegInfinity == [n |-> 0 - 1, d |-> 0]

CropQuads ==
  LET a == Pt(Num(10), Num(20))
      b == Pt(Num(90), Num(20))
      c == Pt(Num(90), Num(60))
      d == Pt(Num(10), Num(60))
  IN  { <<a, b, c, d>>,
        <<a, Pt(NaN, Num(20)), c, d>>,
        <<a, b, Pt(Num(90), Infinity), d>>,
        <<Pt(NegInfinity, Num(20)), b, c, d>>,
        <<a, b, c, [x |-> Num(10)]>>,
        <<>>, <<a>>, <<a, b>>, <<a, b, c>>, <<a, b, c, d, a>> }

CropFaults ==
  { "none", "readFile", "base64ToMat", "getPerspectiveTransform", "type",
    "warpPerspective", "rotate", "toJSValue", "writeFile" }

CropInputs ==
  [quad : CropQuads, rotate : {"none", "cw"}, returnBase64 : BOOLEAN,
   outputFileUri : BOOLEAN, fails : CropFaults]

\* calls into react-native-fast-opencv
NativeCalls ==
  { "base64ToMat", "getPerspectiveTransform", "type", "warpPerspective", "rotate",
    "toJSValue", "clearBuffers" }

Pending == [status |-> "pending", uri |-> FALSE, base64 |-> FALSE, dims |-> FALSE,
            thrownAt |-> "none"]

isFiniteNumber(n) == n.d # 0

\* mutant: nothing is checked
assertValidQuadOff(quad) == TRUE

\* TRUE when assertValidQuad returns, FALSE when it throws
assertValidQuad(quad) ==
  \A i \in 1..Len(quad) :
    /\ "x" \in DOMAIN quad[i] /\ "y" \in DOMAIN quad[i]
    /\ isFiniteNumber(quad[i].x) /\ isFiniteNumber(quad[i].y)

\* a file is written when asked for, or when base64 is not returned
shouldWriteFile(in) == in.outputFileUri \/ ~in.returnBase64

\* the statements of the try block that can throw, in order, up to the await
\* of RNFS.writeFile; orderQuad stands for lines 200-208 (orderQuad, dist)
trySteps(in) ==
  <<"base64ToMat", "orderQuad", "getPerspectiveTransform", "type", "warpPerspective">>
    \o (IF in.rotate # "none" THEN <<"rotate">> ELSE <<>>)
    \o (IF in.returnBase64 \/ shouldWriteFile(in) THEN <<"toJSValue">> ELSE <<>>)

\* the step throws: the fault of this call, or dist() reading a corner of
\* an empty quad; a throw of invoke('type') is caught at once
throws(step, in) ==
  /\ step # "type"
  /\ \/ step = in.fails
     \/ step = "orderQuad" /\ Len(in.quad) = 0

\* index of the first step of the try block that throws, 0 if none does
firstThrow(in) ==
  LET steps == trySteps(in)
      bad == { k \in 1..Len(steps) : throws(steps[k], in) }
  IN  IF bad = {} THEN 0 ELSE CHOOSE k \in bad : \A j \in bad : k <= j

\* the calls recorded for a sequence of steps (orderQuad is plain JS)
callsOf(steps) == SelectSeq(steps, LAMBDA st : st # "orderQuad")

\* mutant: clearBuffers only follows a try block that did not throw
finallyClauseOnSuccess(thrownAt) ==
  IF thrownAt = "none" THEN <<"clearBuffers">> ELSE <<>>

\* finally { OpenCV.clearBuffers() }
finallyClause(thrownAt) == <<"clearBuffers">>

\* mutant: a failed write still resolves, without uri
settleKeepsPartial(thrownAt, in, wrote) ==
  IF thrownAt \notin {"none", "writeFile"}
  THEN [Pending EXCEPT !.status = "rejected", !.thrownAt = thrownAt]
  ELSE [status |-> "resolved", uri |-> wrote /\ thrownAt = "none",
        base64 |-> in.returnBase64, dims |-> TRUE, thrownAt |-> thrownAt]

\* how the promise settles: a throw rejects it, the return statement
\* resolves it with { uri, base64, width, height }
settle(thrownAt, in, wrote) ==
  IF thrownAt # "none"
  THEN [Pending EXCEPT !.status = "rejected", !.thrownAt = thrownAt]
  ELSE [status |-> "resolved", uri |-> wrote, base64 |-> in.returnBase64,
        dims |-> TRUE, thrownAt |-> "none"]

InitCrop ==
  /\ cIn \in CropInputs
  /\ cPc = "call"
  /\ cTrace = <<>>
  /\ cResult = Pending

InitCropIdle ==
  /\ cIn = [quad |-> <<>>, rotate |-> "none", returnBase64 |-> FALSE,
            outputFileUri |-> FALSE, fails |-> "none"]
  /\ cPc = "idle"
  /\ cTrace = <<>>
  /\ cResult = Pending

\* the call runs to its first await: assertValidQuad, then RNFS.readFile
cropDocumentFromFile ==
  /\ cPc = "call"
  /\ IF assertValidQuad(cIn.quad)
     THEN /\ cPc' = "readFile"
          /\ cTrace' = <<"readFile">>
          /\ UNCHANGED cResult
     ELSE /\ cPc' = "settled"
          /\ cResult' = settle("assertValidQuad", cIn, FALSE)
          /\ UNCHANGED cTrace
  /\ UNCHANGED <<cIn, camVars, detVars, prevVars, geoVars, editVars, rectVars, capVars>>

\* RNFS.readFile settles; on success the try block runs to the await of
\* RNFS.writeFile, to its return or to its first throw
readFileSettles ==
  /\ cPc = "readFile"
  /\ LET steps == trySteps(cIn)
         k == firstThrow(cIn)
     IN  IF cIn.fails = "readFile"
         THEN /\ cPc' = "settled"
              /\ cResult' = settle("readFile", cIn, FALSE)
              /\ UNCHANGED cTrace
         ELSE IF k > 0
         THEN /\ cPc' = "settled"
              /\ cTrace' = cTrace \o callsOf(SubSeq(steps, 1, k)) \o finallyClause(steps[k])
              /\ cResult' = settle(steps[k], cIn, FALSE)
         ELSE IF shouldWriteFile(cIn)
         THEN /\ cPc' = "writeFile"
              /\ cTrace' = cTrace \o callsOf(steps) \o <<"writeFile">>
              /\ UNCHANGED cResult
         ELSE /\ cPc' = "settled"
              /\ cTrace' = cTrace \o callsOf(steps) \o finallyClause("none")
              /\ cResult' = settle("none", cIn, FALSE)
  /\ UNCHANGED <<cIn, camVars, detVars, prevVars, geoVars, editVars, rectVars, capVars>>

\* RNFS.writeFile settles: the return statement or the rejection, then the
\* finally block
writeFileSettles ==
  /\ cPc = "writeFile"
  /\ LET thrownAt == IF cIn.fails = "writeFile" THEN "writeFile" ELSE "none"
     IN  /\ cTrace' = cTrace \o finallyClause(thrownAt)
         /\ cResult' = settle(thrownAt, cIn, TRUE)
  /\ cPc' = "settled"
  /\ UNCHANGED <<cIn, camVars, detVars, prevVars, geoVars, editVars, rectVars, capVars>>

----------------------------------------------------------------------------
(* The perspective rectifier as a function of its arguments: what          *)
(* cropDocumentFromFile returns when no call fails.  A string is the       *)
(* sequence of its characters.  The native calls are functions of their    *)
(* arguments, so the encoded image is kept as the term that produced it.   *)

Undefined == <<"undefined">>

Truthy(str) == str # Undefined /\ str # <<>>

fileScheme == <<"f", "i", "l", "e", ":", "/", "/">>

CachesDirectoryPath == <<"/", "t">>

startsWith(str, prefix) ==
  Len(prefix) <= Len(str) /\ SubSeq(str, 1, Len(prefix)) = prefix

endsWith(str, suffix) ==
  Len(suffix) <= Len(str)
    /\ SubSeq(str, Len(str) - Len(suffix) + 1, Len(str)) = suffix

\* the upper-case letters of this model and their lower-case forms
lowerOf(c) ==
  CASE c = "J" -> "j" [] c = "P" -> "p" [] c = "G" -> "g" [] c = "N" -> "n"
    [] OTHER -> c

toLowerCase(str) == [i \in 1..Len(str) |-> lowerOf(str[i])]

\* the class [a-z0-9] under the flag i
isAlnum(c) ==
  c \in { "a", "b", "c", "e", "f", "g", "h", "i", "j", "l", "n", "o", "p", "r",
          "t", "z", "J", "P", "G", "N", "0", "1", "2" }

\* start of the match of /\.[a-z0-9]+$/i in str, 0 when there is none
extMatch(str) ==
  LET at == { k \in 1..(Len(str) - 1) :
                str[k] = "." /\ \A j \in (k + 1)..Len(str) : isAlnum(str[j]) }
  IN  IF at = {} THEN 0 ELSE CHOOSE k \in at : \A j \in at : k <= j

normalizePath(fileUri) ==
  IF startsWith(fileUri, fileScheme)
  THEN SubSeq(fileUri, Len(fileScheme) + 1, Len(fileUri))
  ELSE fileUri

toFileUri(path) == IF startsWith(path, fileScheme) THEN path ELSE fileScheme \o path

\* env.now is Date.now() and env.rand is Math.random().toString(16).slice(2)
makeTempOutputPath(format, env) ==
  LET ext == IF format = "png" THEN <<"p", "n", "g">> ELSE <<"j", "p", "g">>
  IN  CachesDirectoryPath \o <<"/", "c", "n", "h", "_", "c", "r", "o", "p", "_">>
        \o env.now \o <<"_">> \o env.rand \o <<".">> \o ext

\* mutant: a path that has an extension keeps it
outputPathKeepsExt(effectiveOutputFileUri, outFormat) ==
  LET outPath == normalizePath(effectiveOutputFileUri)
      desiredExt == IF outFormat = "png" THEN <<".", "p", "n", "g">> ELSE <<".", "j", "p", "g">>
  IN  IF extMatch(outPath) = 0 THEN outPath \o desiredExt ELSE outPath

\* the path written: the extension is added or replaced to fit the format
outputPath(effectiveOutputFileUri, outFormat) ==
  LET outPath == normalizePath(effectiveOutputFileUri)
      desiredExt == IF outFormat = "png" THEN <<".", "p", "n", "g">> ELSE <<".", "j", "p", "g">>
      k == extMatch(outPath)
  IN  IF k = 0 THEN outPath \o desiredExt
      ELSE IF ~endsWith(toLowerCase(outPath), desiredExt)
      THEN SubSeq(outPath, 1, k - 1) \o desiredExt
      ELSE outPath

\* dist(a, b) squared
distSquared(a, b) ==
  LET dx == Sub(a.x, b.x)
      dy == Sub(a.y, b.y)
  IN  Add(Mul(dx, dx), Mul(dy, dy))

\* mutant: the square root is truncated
floorSqrt(s) ==
  CHOOSE r \in 0..(s.n \div s.d + 1) :
    /\ r * r * s.d <= s.n
    /\ s.n < (r + 1) * (r + 1) * s.d

\* Math.round(Math.sqrt(s)) for a fraction s >= 0: halves round up
roundSqrt(s) ==
  CHOOSE r \in 0..(s.n \div s.d + 1) :
    /\ 4 * s.n < (2 * r + 1) * (2 * r + 1) * s.d
    /\ r = 0 \/ (2 * r - 1) * (2 * r - 1) * s.d <= 4 * s.n

\* outW and outH for the ordered corners, lines 204-208
outputSize(tl, tr, br, bl) ==
  LET width == MathMax(distSquared(tl, tr), distSquared(bl, br))
      height == MathMax(distSquared(tl, bl), distSquared(tr, br))
  IN  [outW |-> Max(1, roundSqrt(width)), outH |-> Max(1, roundSqrt(height))]

\* the destination corners handed to getPerspectiveTransform
dstPts(outW, outH) ==
  <<Pt(0, 0), Pt(outW - 1, 0), Pt(outW - 1, outH - 1), Pt(0, outH - 1)>>

\* mutant: the dimensions of the warp are reported whatever the rotation
finalSizeOfWarp(outW, outH, rotate) == [width |-> outW, height |-> outH]

\* finalW and finalH, lines 304-329
finalSize(outW, outH, rotate) ==
  IF rotate # "none" /\ (rotate = "cw" \/ rotate = "ccw")
  THEN [width |-> outH, height |-> outW]
  ELSE [width |-> outW, height |-> outH]

rotateCode(rotate) == IF rotate = "cw" THEN 0 ELSE IF rotate = "180" THEN 1 ELSE 2

\* mutant: the encoder is handed a Mat stamped with the time of the call
encodedStamped(in, q, size, env) ==
  [image |-> in.image, src |-> q, dsize |-> size,
   rotate |-> IF in.rotate = "none" THEN "none" ELSE rotateCode(in.rotate),
   format |-> in.format, stamp |-> env.now]

\* toJSValue(finalMat, outFormat).base64 as the term of the calls that made
\* finalMat: base64ToMat, getPerspectiveTransform, warpPerspective, rotate
encoded(in, q, size, env) ==
  [image |-> in.image, src |-> q, dsize |-> size,
   rotate |-> IF in.rotate = "none" THEN "none" ELSE rotateCode(in.rotate),
   format |-> in.format, stamp |-> <<>>]

NoContent == [image |-> "none"]

\* cropDocumentFromFile(in) when every call succeeds
cropResult(in, env) ==
  LET outFormat == IF in.format = "png" THEN "png" ELSE "jpeg"
      write == shouldWriteFile([outputFileUri |-> Truthy(in.outputFileUri),
                                returnBase64 |-> in.returnBase64])
      effectiveOutputFileUri ==
        IF in.outputFileUri # Undefined THEN in.outputFileUri
        ELSE IF write THEN toFileUri(makeTempOutputPath(outFormat, env))
        ELSE Undefined
      q == orderQuad(in.quad)
      size == outputSize(q[1], q[2], q[3], q[4])
      final == finalSize(size.outW, size.outH, in.rotate)
      needsBase64 == in.returnBase64 \/ Truthy(effectiveOutputFileUri)
      outBase64 == IF needsBase64 THEN encoded(in, q, size, env) ELSE NoContent
      writes == Truthy(effectiveOutputFileUri) /\ outBase64 # NoContent
      outPath == IF writes THEN outputPath(effectiveOutputFileUri, outFormat) ELSE Undefined
  IN  [ordered |-> q, outW |-> size.outW, outH |-> size.outH,
       dst |-> dstPts(size.outW, size.outH),
       written |-> IF writes THEN outBase64 ELSE NoContent,
       uri |-> IF writes THEN toFileUri(outPath) ELSE Undefined,
       base64 |-> IF in.returnBase64 THEN outBase64 ELSE NoContent,
       width |-> final.width, height |-> final.height]

\* quads in the pixel space of the source image: documents, quads whose
\* corners coincide, and sides that round up, down and at the half
RectQuads ==
  { numQuad(q) : q \in GeoQuads }
  \cup { <<Pt(Num(90), Num(60)), Pt(Num(10), Num(60)), Pt(Num(10), Num(20)), Pt(Num(90), Num(20))>>,
         <<Pt(Num(5), Num(5)), Pt(Num(5), Num(5)), Pt(Num(5), Num(5)), Pt(Num(5), Num(5))>>,
         <<Pt(Num(0), Num(0)), Pt(Num(3), Num(4)), Pt(Num(3), Num(4)), Pt(Num(0), Num(0))>>,
         <<Pt(Num(0), Num(0)), Pt(Rat(5, 2), Num(0)), Pt(Rat(5, 2), Rat(1, 2)), Pt(Num(0), Rat(1, 2))>>,
         <<Pt(Num(0), Num(0)), Pt(Rat(2, 5), Num(0)), Pt(Rat(2, 5), Rat(2, 5)), Pt(Num(0), Rat(2, 5))>>,
         <<Pt(Num(0), Num(0)), Pt(Num(4), Num(1)), Pt(Num(6), Num(3)), Pt(Num(2), Num(2))>> }

\* outputFileUri: a stem followed by an extension, or nothing at all
PathStems ==
  { <<"/", "o">>, <<"/", "a", ".", "b", "/", "o">>, fileScheme \o <<"/", "o">> }

PathExts ==
  { <<>>, <<".">>, <<".", "j", "p", "g">>, <<".", "p", "n", "g">>,
    <<".", "J", "P", "G">>, <<".", "P", "n", "g">>, <<".", "j", "p", "e", "g">>,
    <<".", "t", "a", "r", ".", "p", "n", "g">> }

OutputFileUris ==
  { Undefined, <<>> } \cup { stem \o ext : stem \in PathStems, ext \in PathExts }

RectInputs ==
  [image : {"photo"}, quad : RectQuads, format : {"jpeg", "png"},
   rotate : {"none", "cw", "ccw", "180"}, outputFileUri : OutputFileUris,
   returnBase64 : BOOLEAN]

\* Date.now() and Math.random() as the two calls can see them
RectEnvs == { [now |-> <<"1">>, rand |-> <<"a", "f">>], [now |-> <<"2">>, rand |-> <<>>] }

InitRect ==
  /\ rIn \in RectInputs
  /\ rOut = <<>>

InitRectIdle ==
  /\ rIn = [image |-> "none"]
  /\ rOut = <<>>

\* one call of cropDocumentFromFile with the arguments rIn runs to its end;
\* a second call is given the same image, quad, format and rotation
rectify ==
  /\ rIn.image # "none"
  /\ Len(rOut) < 2
  /\ \E env \in RectEnvs, returnBase64 \in BOOLEAN :
       /\ Len(rOut) = 0 => returnBase64 = rIn.returnBase64
       /\ rOut' = Append(rOut, [env |-> env, returnBase64 |-> returnBase64,
                                result |-> cropResult([rIn EXCEPT !.returnBase64 = returnBase64], env)])
  /\ UNCHANGED <<rIn, capVars, camVars, detVars, prevVars, geoVars, editVars, cropVars>>

----------------------------------------------------------------------------
(* CameraScreen: handleTakePhoto.  The Camera is mounted (cameraRef is    *)
(* set).  The update of isCapturing made by the press is committed before  *)
(* the next event, so a press while a capture is running returns at once.  *)

MaxCaptureNow == 150

\* what camera.takePhoto can resolve with
Photos == { [width |-> 1200, height |-> 1600], [width |-> 1600, height |-> 1200] }

NoPhoto == [width |-> 0, height |-> 0]

NoParams == [uri |-> FALSE, quad |-> NoQuad, frameSize |-> NoMeta,
             photoSize |-> NoMeta, cropRect |-> NoMeta]

CapIdle == [pc |-> "idle", outcome |-> "none", enabled |-> FALSE, stable |-> NULL,
            lastPhoto |-> NoPhoto, params |-> NoParams]

quadToCropRect(quad) ==
  LET minX == Min(Min(quad[1].x, quad[2].x), Min(quad[3].x, quad[4].x))
      maxX == Max(Max(quad[1].x, quad[2].x), Max(quad[3].x, quad[4].x))
      minY == Min(Min(quad[1].y, quad[2].y), Min(quad[3].y, quad[4].y))
      maxY == Max(Max(quad[1].y, quad[2].y), Max(quad[3].y, quad[4].y))
  IN  [x |-> Max(0, minX), y |-> Max(0, minY),
       width |-> Max(1, maxX - minX), height |-> Max(1, maxY - minY)]

\* the params handed to navigation.navigate('Preview', ...); stable is the
\* value read from stableDetectedRef before the await
previewParams(stable, photo) ==
  IF HasQuad(stable)
  THEN LET cropRectFrame == quadToCropRect(stable.quad)
       IN  [uri |-> TRUE, quad |-> stable.quad,
            frameSize |-> [width |-> stable.frameWidth, height |-> stable.frameHeight],
            photoSize |-> photo,
            cropRect |-> [x |-> Rat(cropRectFrame.x * photo.width, stable.frameWidth),
                          y |-> Rat(cropRectFrame.y * photo.height, stable.frameHeight),
                          width |-> Rat(cropRectFrame.width * photo.width, stable.frameWidth),
                          height |-> Rat(cropRectFrame.height * photo.height, stable.frameHeight)]]
  ELSE [NoParams EXCEPT !.uri = TRUE]

\* mutant: the capture goes on without a quad
mustHaveQuadOff(enabled, stable) == FALSE

\* isRealtimeDetectionEnabled && !stable?.quad
mustHaveQuad(enabled, stable) == enabled /\ ~HasQuad(stable)

InitCapIdle ==
  /\ isCapturing = FALSE
  /\ cap = CapIdle

\* the CameraScreen is the focused screen
onCameraScreen == cap.pc # "navigated"

\* a press on the shutter, up to the alert or to the await of takePhoto
handleTakePhoto ==
  /\ onCameraScreen
  /\ ~render.active
  /\ ~isCapturing
  /\ LET stable == stableDetectedRef
         enabled == isRealtimeDetectionEnabled
     IN  IF mustHaveQuad(enabled, stable)
         THEN /\ cap' = [CapIdle EXCEPT !.outcome = "alert", !.enabled = enabled,
                                        !.stable = stable, !.lastPhoto = cap.lastPhoto]
              /\ UNCHANGED isCapturing
         ELSE /\ cap' = [CapIdle EXCEPT !.pc = "takePhoto", !.outcome = "takePhoto",
                                        !.enabled = enabled, !.stable = stable,
                                        !.lastPhoto = cap.lastPhoto]
              /\ isCapturing' = TRUE
  /\ UNCHANGED <<camVars, detVars, prevVars, geoVars, editVars, cropVars, rectVars>>

\* takePhoto resolves: setLastPhoto, navigate to Preview, setIsCapturing(false)
takePhotoResolves ==
  /\ cap.pc = "takePhoto"
  /\ ~render.active
  /\ \E photo \in Photos :
       cap' = [cap EXCEPT !.pc = "navigated", !.outcome = "navigated", !.lastPhoto = photo,
                          !.params = previewParams(cap.stable, photo)]
  /\ isCapturing' = FALSE
  /\ UNCHANGED <<camVars, detVars, prevVars, geoVars, editVars, cropVars, rectVars>>

\* takePhoto rejects: the error is shown, setIsCapturing(false)
takePhotoRejects ==
  /\ cap.pc = "takePhoto"
  /\ ~render.active
  /\ cap' = [cap EXCEPT !.pc = "idle", !.outcome = "error"]
  /\ isCapturing' = FALSE
  /\ UNCHANGED <<camVars, detVars, prevVars, geoVars, editVars, cropVars, rectVars>>

----------------------------------------------------------------------------
(* Specifications *)

\* the camera screen: frame processor, stabilizer and toggle
Init == InitCam /\ InitDetIdle /\ InitPrevIdle /\ InitGeoIdle /\ InitEditIdle /\ InitCropIdle /\ InitRectIdle /\ InitCapIdle

Next ==
  \/ Tick
  \/ frameProcessor
  \/ frameProcessorEnd
  \/ onQuadDetectedIgnored
  \/ onQuadDetectedEager
  \/ onQuadDetectedQueued
  \/ handleToggleRealtime
  \/ renderUpdate
  \/ renderCommit

Spec == Init /\ [][Next]_vars

\* the detector as a function of the frame
InitDetect == InitCam /\ InitDet /\ InitPrevIdle /\ InitGeoIdle /\ InitEditIdle /\ InitCropIdle /\ InitRectIdle /\ InitCapIdle

NextDetect ==
  \/ detectFrame
  \/ detectNextFrame

SpecDetect == InitDetect /\ [][NextDetect]_vars

\* the preview screen after a capture without live detection
InitPreview == InitCam /\ InitDetIdle /\ InitPrev /\ InitGeoIdle /\ InitEditIdle /\ InitCropIdle /\ InitRectIdle /\ InitCapIdle

NextPreview ==
  \/ getSizeSuccess
  \/ getSizeFailure
  \/ onPreviewLayout
  \/ previewRender
  \/ handleConfirm
  \/ cropReadFile
  \/ cropWriteFile
  \/ cropFails

SpecPreview == InitPreview /\ [][NextPreview]_vars

\* the coordinate transforms alone
InitGeom == InitCam /\ InitDetIdle /\ InitPrevIdle /\ InitGeo /\ InitEditIdle /\ InitCropIdle /\ InitRectIdle /\ InitCapIdle

NextGeom ==
  \/ applyMapPointToView
  \/ applyMappedQuad
  \/ applyFrameToPhoto
  \/ applyRawToDisplay
  \/ applyQuadForCrop
  \/ applySavedCorners
  \/ applyOrderQuadTLTRBRBL
  \/ applyOrderQuad
  \/ applyRawDisplayRaw
  \/ applyRotateBack
  \/ applyImageViewImage

SpecGeom == InitGeom /\ [][NextGeom]_vars

\* the two corner orderings on every four points of the grid, coincident
\* and collinear points included
AllGridQuads ==
  { <<a, b, c, d>> : a \in GridPoints, b \in GridPoints,
                     c \in GridPoints, d \in GridPoints }

InitOrder ==
  /\ InitCam /\ InitDetIdle /\ InitPrevIdle /\ InitEditIdle /\ InitCropIdle
  /\ InitRectIdle /\ InitCapIdle
  /\ gIn \in { GeoInput(q, Size(GridMax, GridMax), Size(GridMax, GridMax), "ccw", "contain") :
                 q \in AllGridQuads }
  /\ gOut = GeoOut("none", NoQuad, NoQuad)

NextOrder ==
  \/ applyOrderQuadTLTRBRBL
  \/ applyOrderQuad
  \/ applyCropReorder

SpecOrder == InitOrder /\ [][NextOrder]_vars

\* the corner editor of PreviewScreen
InitEditor == InitCam /\ InitDetIdle /\ InitPrevShown /\ InitGeoIdle /\ InitEdit /\ InitCropIdle /\ InitRectIdle /\ InitCapIdle

NextEditor ==
  \/ openEditor
  \/ onEditorLayout
  \/ updateEditPoint
  \/ handleSaveCorners
  \/ cancelEditing

SpecEditor == InitEditor /\ [][NextEditor]_vars

\* the users of OpenCV: cropDocumentFromFile and one frame analysis
OcvFrames ==
  { Frame(400, 400, <<cSmall, cBig>>, expectedLen(400, 400), "none"),
    Frame(400, 400, <<cBig>>, expectedLen(400, 400) - 1, "none"),
    Frame(400, 400, <<cBig>>, expectedLen(400, 400), "S2"),
    Frame(400, 400, <<cBig>>, expectedLen(400, 400), "S8") }

InitOcv ==
  /\ InitCam /\ InitPrevIdle /\ InitGeoIdle /\ InitEditIdle /\ InitCrop /\ InitRectIdle /\ InitCapIdle
  /\ dFrame \in OcvFrames
  /\ dDone = FALSE
  /\ dResult = NULL
  /\ dCalls = <<>>

NextOcv ==
  \/ cropDocumentFromFile
  \/ readFileSettles
  \/ writeFileSettles
  \/ detectFrame

SpecOcv == InitOcv /\ [][NextOcv]_vars


\* the rectifier as a function of its arguments
InitRectify ==
  /\ InitCam /\ InitDetIdle /\ InitPrevIdle /\ InitGeoIdle /\ InitEditIdle /\ InitCropIdle
  /\ InitRect /\ InitCapIdle

NextRectify ==
  \/ rectify

SpecRectify == InitRectify /\ [][NextRectify]_vars

\* the camera screen until a capture has opened the Preview screen
InitCapture ==
  /\ InitCam /\ InitDetIdle /\ InitPrevIdle /\ InitGeoIdle /\ InitEditIdle /\ InitCropIdle
  /\ InitRectIdle /\ InitCapIdle

NextCapture ==
  \/ onCameraScreen /\ now + TickMs <= MaxCaptureNow /\ Tick
  \/ onCameraScreen /\ frameProcessor
  \/ onCameraScreen /\ frameProcessorEnd
  \/ onCameraScreen /\ onQuadDetectedIgnored
  \/ onCameraScreen /\ onQuadDetectedEager
  \/ onCameraScreen /\ onQuadDetectedQueued
  \/ onCameraScreen /\ handleToggleRealtime
  \/ onCameraScreen /\ renderUpdate
  \/ onCameraScreen /\ renderCommit
  \/ handleTakePhoto
  \/ takePhotoResolves
  \/ takePhotoRejects

SpecCapture == InitCapture /\ [][NextCapture]_vars

\* the Preview screen with its corner editor: saved corners and the
\* layout of the preview
InitSaved == InitEditor

NextSaved ==
  \/ previewQueue = <<>> /\ openEditor
  \/ onEditorLayout
  \/ updateEditPoint
  \/ handleSaveCorners
  \/ cancelEditing
  \/ ~isEditing /\ onPreviewLayout
  \/ ~isEditing /\ previewRender

SpecSaved == InitSaved /\ [][NextSaved]_vars

----------------------------------------------------------------------------
(* Steps in which the updater of onQuadDetected runs, read off the state   *)

\* the updater runs inside the onQuadDetected call
RunsEager ==
  /\ ~render.active /\ isRealtimeEnabledRef
  /\ jsQueue # <<>> /\ jsQueue' = Tail(jsQueue)
  /\ detectedQueue = <<>> /\ detectedQueue' # <<>>
  /\ detectedQueue'[1].kind = "val"

\* the updater runs in a render pass
RunsQueued ==
  /\ detectedQueue # <<>> /\ detectedQueue' = Tail(detectedQueue)
  /\ Head(detectedQueue).kind = "fn"

UpdaterRuns == RunsEager \/ RunsQueued

RunIn == IF RunsEager THEN Head(jsQueue) ELSE Head(detectedQueue).payload
RunAt == IF RunsEager THEN now ELSE Head(detectedQueue).at
RunPrev == IF RunsEager \/ ~render.active THEN detected ELSE render.acc
RunOut == IF RunsEager THEN detectedQueue'[1].value ELSE render'.acc

\* nothing is in flight between the frame processor and the screen
Quiescent ==
  /\ fp = <<>> /\ jsQueue = <<>> /\ detectedQueue = <<>>
  /\ realtimeQueue = <<>> /\ ~render.active

----------------------------------------------------------------------------
(* C1: while detection is disabled (isRealtimeEnabledRef is false), the    *)
(* stabilizer state is empty: lastGoodRef, lastGoodTsRef and               *)
(* stableDetectedRef are reset, and once the toggle is committed the       *)
(* displayed `detected` is null.                                           *)
C1_DisabledIsEmpty ==
  ~isRealtimeEnabledRef =>
    /\ lastGoodRef = NULL
    /\ lastGoodTsRef = 0
    /\ stableDetectedRef = NULL
    /\ (~isRealtimeDetectionEnabled /\ Quiescent => detected = NULL)

----------------------------------------------------------------------------
(* C2 as stated: the inputs [quadA, null, null, quadA], each arriving less *)
(* than HOLD_MS after the one before, are emitted as quadA four times.     *)
FedFour ==
  /\ Len(fed.seq) = 4
  /\ HasQuad(fed.seq[1].in) /\ fed.seq[2].in = NULL /\ fed.seq[3].in = NULL
  /\ fed.seq[4].in = fed.seq[1].in

C2_InterArrival ==
  (FedFour /\ \A i \in 1..3 : fed.seq[i + 1].at - fed.seq[i].at < HOLD_MS)
    => \A i \in 1..4 : fed.seq[i].out = fed.seq[1].in

(* C2 amended: the inputs [quadA, null, null, quadA] are emitted as quadA  *)
(* four times when both nulls arrive less than HOLD_MS after quadA was     *)
(* confirmed.                                                              *)
C2_WithinHold ==
  (FedFour /\ \A i \in 2..3 : fed.seq[i].at - fed.seq[1].at < HOLD_MS)
    => \A i \in 1..4 : fed.seq[i].out = fed.seq[1].in

C2_Witness ==
  /\ FedFour
  /\ \A i \in 2..3 : fed.seq[i].at - fed.seq[1].at < HOLD_MS
  /\ fed.seq[3].at > fed.seq[1].at
  /\ \A i \in 1..4 : fed.seq[i].out = fed.seq[1].in

----------------------------------------------------------------------------
(* C3: the inputs [quadA, null], the null arriving HOLD_MS or more after   *)
(* quadA was confirmed, emit null, and lastGoodRef is cleared.             *)
C3_Expiry ==
  (/\ Len(fed.seq) >= 2
   /\ HasQuad(fed.seq[1].in) /\ fed.seq[2].in = NULL
   /\ fed.seq[2].at - fed.seq[1].at >= HOLD_MS)
    => /\ fed.seq[2].out = NULL
       /\ (Len(fed.seq) = 2 => lastGoodRef = NULL)

C3_Witness ==
  /\ Len(fed.seq) = 2
  /\ HasQuad(fed.seq[1].out) /\ fed.seq[2].in = NULL
  /\ fed.seq[2].at - fed.seq[1].at = HOLD_MS
  /\ fed.seq[2].out = NULL /\ lastGoodRef = NULL

----------------------------------------------------------------------------
(* C4: with detection enabled, once an analysis that started HOLD_MS or    *)
(* more after the last confirmation has run to its end and everything it   *)
(* posted has been processed, the confirmed quad is no longer shown.       *)
C4_HoldBoundsStaleness ==
  (isRealtimeEnabledRef /\ isRealtimeDetectionEnabled /\ Quiescent /\ HasQuad(detected))
    => lastFrameProcessorCall < lastGoodTsRef + HOLD_MS

----------------------------------------------------------------------------
(* C5: an analysis that throws, or whose resized buffer is too short,      *)
(* reaches the stabilizer as a null detection does: it posts               *)
(* onQuadDetected(null).                                                   *)
Faulty(frame) ==
  \/ frame.throwsAt # "none"
  \/ frame.resizedLen < scaledWidth(frame) * scaledHeight(frame) * CHANNELS

C5_FaultIsNullDetection ==
  [][(fp # <<>> /\ fp' = Tail(fp) /\ Faulty(Head(fp)))
       => jsQueue' = Append(jsQueue, NULL)]_vars

----------------------------------------------------------------------------
(* C7: at most one analysis is pending on the frame-processor thread.      *)
C7_OneInFlight == Len(fp) <= 1

\* an analysis is still running when the target interval has passed: the
\* frame arriving now is dropped
C7_Witness ==
  /\ Len(fp) = 1
  /\ now - lastFrameProcessorCall >= 1000 \div TARGET_FPS
  /\ isRealtimeDetectionEnabled

----------------------------------------------------------------------------
(* C8: a non-null detection whose frame size equals that of the previous   *)
(* stable result is emitted as prev + (new - prev) * 0.35 corner by        *)
(* corner; otherwise it is emitted unchanged.                              *)
C8_SmoothOrAdopt ==
  [][(UpdaterRuns /\ HasQuad(RunIn)) =>
       IF /\ HasQuad(RunPrev)
          /\ RunPrev.frameWidth = RunIn.frameWidth
          /\ RunPrev.frameHeight = RunIn.frameHeight
       THEN /\ RunOut.frameWidth = RunIn.frameWidth
            /\ RunOut.frameHeight = RunIn.frameHeight
            /\ \A i \in 1..4 :
                 /\ RunOut.quad[i].x = RunPrev.quad[i].x
                      + ((RunIn.quad[i].x - RunPrev.quad[i].x) * 35) \div 100
                 /\ RunOut.quad[i].y = RunPrev.quad[i].y
                      + ((RunIn.quad[i].y - RunPrev.quad[i].y) * 35) \div 100
       ELSE RunOut = RunIn]_vars

\* a smoothed quad is shown: cBig (40,40) moved 35% of the way to cMid (80,80)
C8_Witness ==
  /\ HasQuad(detected)
  /\ detected.quad[1] = Pt(54, 54)
  /\ detected.frameWidth = 400 /\ detected.frameHeight = 400

----------------------------------------------------------------------------
(* C9: every accepted non-null detection sets lastGoodRef to the emitted   *)
(* result and lastGoodTsRef to the time onQuadDetected read for it.        *)
C9_AcceptUpdatesLastGood ==
  [][(UpdaterRuns /\ HasQuad(RunIn)) =>
       /\ HasQuad(RunOut)
       /\ lastGoodRef' = RunOut
       /\ lastGoodTsRef' = RunAt]_vars

\* a detection in the 800x400 frame space was accepted after the clock moved
C9_Witness ==
  /\ HasQuad(lastGoodRef)
  /\ lastGoodRef = stableDetectedRef
  /\ lastGoodTsRef >= 2 * TickMs
  /\ lastGoodRef.frameWidth = 800

----------------------------------------------------------------------------
(* C6: at most one cropDocumentFromFile call is in flight per Preview      *)
(* screen: a press on Recortar while one has not settled starts nothing.   *)
C6_OneCropInFlight == Len(crops) <= 1

\* a second crop is in flight after the first one settled and was shown
C6_Witness ==
  /\ Len(crops) = 1
  /\ croppedUri
  /\ isCropping
  /\ quadOnImage # NoQuad

----------------------------------------------------------------------------
(* C10: the detector returns the bounding rectangle of a highest-scoring   *)
(* contour among those with rect area >= 8% of the scaled frame and        *)
(* long/short side ratio in [1.2, 2.3], rescaled to frame space as         *)
(* [TL, TR, BR, BL], and null exactly when no contour passes.  On a        *)
(* 100x100 scaled frame rect {10,10,80,50} is selected and {0,0,5,5} is    *)
(* rejected.                                                               *)
PassesFilters(c, w, h) ==
  LET ra == c.rect.width * c.rect.height
      long == IF c.rect.width >= c.rect.height THEN c.rect.width ELSE c.rect.height
      short == IF c.rect.width >= c.rect.height THEN c.rect.height ELSE c.rect.width
  IN  /\ 100 * ra >= 8 * w * h
      /\ 10 * long >= 12 * short
      /\ 10 * long <= 23 * short

Score10(c) == 7 * c.area + 3 * c.rect.width * c.rect.height

RectInFrame(c, rx, ry) ==
  << [x |-> c.rect.x * rx, y |-> c.rect.y * ry],
     [x |-> (c.rect.x + c.rect.width) * rx, y |-> c.rect.y * ry],
     [x |-> (c.rect.x + c.rect.width) * rx, y |-> (c.rect.y + c.rect.height) * ry],
     [x |-> c.rect.x * rx, y |-> (c.rect.y + c.rect.height) * ry] >>

C10_BestCandidate ==
  dDone =>
    LET w == dFrame.width \div 4
        h == dFrame.height \div 4
        cs == dFrame.contours
        passing == { i \in 1..Len(cs) : PassesFilters(cs[i], w, h) }
    IN  /\ (passing = {}) <=> (dResult = NULL)
        /\ passing # {} =>
             /\ dResult.frameWidth = dFrame.width
             /\ dResult.frameHeight = dFrame.height
             /\ \E i \in passing :
                  /\ \A j \in passing : Score10(cs[j]) <= Score10(cs[i])
                  /\ dResult.quad = RectInFrame(cs[i], 4, 4)
        /\ (w = 100 /\ h = 100 /\ cs = <<cSmall, cBig>>) =>
             dResult.quad = <<Pt(40, 40), Pt(360, 40), Pt(360, 240), Pt(40, 240)>>

\* the scenario: the small contour first, the document second
C10_Witness ==
  /\ dDone
  /\ dFrame.width = 400 /\ dFrame.height = 400
  /\ dFrame.contours = <<cSmall, cBig>>
  /\ dResult.quad = <<Pt(40, 40), Pt(360, 40), Pt(360, 240), Pt(40, 240)>>

----------------------------------------------------------------------------
(* Corner order and coordinate transforms, under SpecGeom *)

\* the corners are listed [topLeft, topRight, bottomRight, bottomLeft]: along
\* the top and the bottom side x grows, along the left and the right side y
\* grows
InOrder(q) ==
  /\ Lt(q[1].x, q[2].x) /\ Lt(q[4].x, q[3].x)
  /\ Lt(q[1].y, q[4].y) /\ Lt(q[2].y, q[3].y)

\* C11: the quad produced by each of Frame->View, frame->photo, RAW->DISPLAY,
\* DISPLAY->RAW and view->image, from a quad in canonical order in its source
\* space, is in canonical order [TL, TR, BR, BL] in the destination space.
C11_TransformsReorder ==
  (/\ gOut.op \in {"frameToView", "frameToPhoto", "rawToDisplay", "displayToRaw",
                   "viewToImage"}
   /\ gIn.quad \in GeoQuads)
    => InOrder(gOut.quad)

\* orderQuad applied to its own result returns it unchanged
IdempotentOn(strict) ==
  (Convex(gIn.quad) /\ AxisAligned(gIn.quad, strict)) =>
    /\ gOut.op = "orderQuadTLTRBRBL" => orderQuadTLTRBRBL(gOut.quad) = gOut.quad
    /\ gOut.op = "orderQuad" => orderQuad(gOut.quad) = gOut.quad

C13_RoundTrips ==
  gOut.op \in {"rawDisplayRaw", "rotateBack", "imageViewImage"} =>
    gOut.quad = numQuad(gIn.quad)

\* a quad went through the cw rotation of the swapped-size branch and back
C13_Witness ==
  /\ gOut.op = "rotateBack" /\ gIn.mode = "cw"
  /\ isSwappedSize(gIn.from, gIn.to) /\ gIn.from # gIn.to
  /\ gOut.mid # numQuad(gIn.quad)
  /\ gOut.quad = numQuad(gIn.quad)

\* the three results mapPointRawToDisplay can give for one point
rotatedCcw(p, raw) == Pt(Sub(Num(raw.height), p.y), p.x)
unrotatedCcw(p, raw) == Pt(p.y, Sub(Num(raw.height), p.x))
scaledBy(p, from, to) ==
  Pt(Div(Mul(p.x, Num(to.width)), Num(from.width)),
     Div(Mul(p.y, Num(to.height)), Num(from.height)))

\* the two sizes agree within the tolerance on each dimension
SameSize(a, b) == Abs(a.width - b.width) <= 2 /\ Abs(a.height - b.height) <= 2
Swapped(a, b) == Abs(a.width - b.height) <= 2 /\ Abs(a.height - b.width) <= 2

\* C14 as stated: whenever raw and display are swapped within 2 px the
\* rotation is applied, and in every other case where the sizes differ the
\* point is scaled by the dimension ratios, forward and backward.
C14_BranchBySizes ==
  gOut.op = "rawDisplayRaw" =>
    \A i \in 1..4 :
      LET p == numQuad(gIn.quad)[i]
      IN  /\ Swapped(gIn.from, gIn.to) =>
               /\ gOut.mid[i] = rotatedCcw(p, gIn.from)
               /\ gOut.quad[i] = unrotatedCcw(gOut.mid[i], gIn.from)
          /\ (~Swapped(gIn.from, gIn.to) /\ gIn.from # gIn.to) =>
               /\ gOut.mid[i] = scaledBy(p, gIn.from, gIn.to)
               /\ gOut.quad[i] = scaledBy(gOut.mid[i], gIn.to, gIn.from)

\* C14: when raw and display agree within 2 px on width and on height the
\* point is returned unchanged; otherwise, when they are swapped within 2 px,
\* the rotation is applied; otherwise the point is scaled by the dimension
\* ratios (display/raw forward, raw/display backward).
C14_BranchOrder ==
  gOut.op = "rawDisplayRaw" =>
    \A i \in 1..4 :
      LET p == numQuad(gIn.quad)[i]
      IN  IF SameSize(gIn.from, gIn.to)
          THEN gOut.mid[i] = p /\ gOut.quad[i] = gOut.mid[i]
          ELSE IF Swapped(gIn.from, gIn.to)
          THEN /\ gOut.mid[i] = rotatedCcw(p, gIn.from)
               /\ gOut.quad[i] = unrotatedCcw(gOut.mid[i], gIn.from)
          ELSE /\ gOut.mid[i] = scaledBy(p, gIn.from, gIn.to)
               /\ gOut.quad[i] = scaledBy(gOut.mid[i], gIn.to, gIn.from)

\* a square image: the sizes are equal, hence also swapped, and the points
\* were returned unchanged
C14_Witness ==
  /\ gOut.op = "rawDisplayRaw"
  /\ gIn.from = Size(200, 200) /\ gIn.to = Size(200, 200)
  /\ gOut.mid = numQuad(gIn.quad)

\* C15: mapPointToView rotates the point and swaps the frame size when the
\* frame is landscape and the view portrait, takes scale = max(sx, sy) for
\* cover and min(sx, sy) for contain, centres the scaled frame, and returns
\* point * scale + offset; the square of side 10 at the origin of a 100x100
\* source maps into 200x200 under contain to [(0,0),(20,0),(20,20),(0,20)].
C15_FrameToView ==
  gOut.op = "mapPointToView" =>
    LET rot == gIn.from.width > gIn.from.height /\ gIn.to.height > gIn.to.width
        nw == IF rot THEN gIn.from.height ELSE gIn.from.width
        nh == IF rot THEN gIn.from.width ELSE gIn.from.height
        vw == gIn.to.width
        vh == gIn.to.height
        xLarger == vw * nh >= vh * nw
        useX == IF gIn.resizeMode = "cover" THEN xLarger ELSE ~xLarger
        sn == IF useX THEN vw ELSE vh
        sd == IF useX THEN nw ELSE nh
    IN  /\ \A i \in 1..4 :
             LET px == IF rot THEN gIn.from.height - gIn.quad[i].y ELSE gIn.quad[i].x
                 py == IF rot THEN gIn.quad[i].x ELSE gIn.quad[i].y
             IN  /\ gOut.quad[i].x.n * (2 * sd)
                      = gOut.quad[i].x.d * (2 * px * sn + vw * sd - nw * sn)
                 /\ gOut.quad[i].y.n * (2 * sd)
                      = gOut.quad[i].y.d * (2 * py * sn + vh * sd - nh * sn)
        /\ (/\ gIn.quad = <<Pt(0, 0), Pt(10, 0), Pt(10, 10), Pt(0, 10)>>
            /\ gIn.from = Size(100, 100) /\ gIn.to = Size(200, 200)
            /\ gIn.resizeMode = "contain")
             => gOut.quad = numQuad(<<Pt(0, 0), Pt(20, 0), Pt(20, 20), Pt(0, 20)>>)

\* the scenario of the claim has been mapped
C15_Witness ==
  /\ gOut.op = "mapPointToView"
  /\ gIn.quad = <<Pt(0, 0), Pt(10, 0), Pt(10, 10), Pt(0, 10)>>
  /\ gIn.from = Size(100, 100) /\ gIn.to = Size(200, 200)
  /\ gIn.resizeMode = "contain"
  /\ gOut.quad[3] = Pt(Num(20), Num(20))

----------------------------------------------------------------------------
(* The corner editor, under SpecEditor *)

InsideRect(p, rect) ==
  /\ Le(rect.x, p.x) /\ Le(p.x, Add(rect.x, rect.width))
  /\ Le(rect.y, p.y) /\ Le(p.y, Add(rect.y, rect.height))

InsideImage(p, meta) ==
  /\ Le(Num(0), p.x) /\ Le(p.x, Num(meta.width))
  /\ Le(Num(0), p.y) /\ Le(p.y, Num(meta.height))

\* C16: after any sequence of drags every corner of editQuadView written by a
\* drag lies inside the editor's letterboxed display rect, and after
\* handleSaveCorners every corner of quadOnImage lies in
\* [0, imageMeta.width] x [0, imageMeta.height].
C16_EditsStayInside ==
  /\ \A i \in editLog.written :
       InsideRect(editQuadView[i], rectOf(editorSize, imageMeta))
  /\ editLog.saved => \A i \in 1..4 : InsideImage(quadOnImage[i], imageMeta)

\* a corner was dragged beyond the bottom right of the editor and the
\* corners were saved: the corner is stored on the corner of the image
C16_Witness ==
  /\ editLog.saved /\ editLog.drags > 0
  /\ \E i \in 1..4 : quadOnImage[i] = Pt(Num(imageMeta.width), Num(imageMeta.height))

----------------------------------------------------------------------------
(* cropDocumentFromFile and the frame analysis, under SpecOcv *)

Called == cPc \notin {"idle", "call"}

Made(call) == \E k \in 1..Len(cTrace) : cTrace[k] = call

\* some coordinate of the quad is missing or not finite
BadCoordinate(quad) ==
  \E i \in 1..Len(quad) :
    \/ "x" \notin DOMAIN quad[i]
    \/ "y" \notin DOMAIN quad[i]
    \/ quad[i].x.d = 0
    \/ quad[i].y.d = 0

\* C17: called with a quad that has a non-finite or missing coordinate,
\* cropDocumentFromFile rejects before any file read and before any native
\* OpenCV call.
C17_NonFiniteRejected ==
  (Called /\ BadCoordinate(cIn.quad)) =>
    /\ cPc = "settled"
    /\ cResult.status = "rejected"
    /\ cTrace = <<>>

\* the call with a NaN coordinate has been rejected by assertValidQuad
C17_Witness ==
  /\ cPc = "settled"
  /\ Len(cIn.quad) = 4 /\ cIn.quad[2].x = NaN
  /\ cResult.status = "rejected" /\ cResult.thrownAt = "assertValidQuad"

\* C18: called with a quad of 0, 1, 2, 3 or 5+ points, cropDocumentFromFile
\* is rejected by the call itself, before the file is read and before the
\* source image is decoded into a Mat.
C18_PointCountRejected ==
  (Called /\ Len(cIn.quad) # 4) =>
    /\ cResult.status = "rejected"
    /\ ~Made("readFile")
    /\ ~Made("base64ToMat")

\* the calls whose failure the claim lists
ListedFaults ==
  { "readFile", "base64ToMat", "getPerspectiveTransform", "warpPerspective",
    "rotate", "toJSValue", "writeFile" }

\* C19: if reading or decoding the source, solving the matrix, warping,
\* rotating, encoding or writing fails, the promise rejects and carries no
\* uri, base64 or dimensions; an unsettled or rejected promise never does.
C19_NoPartialCrop ==
  /\ cResult.status # "resolved" =>
       ~cResult.uri /\ ~cResult.base64 /\ ~cResult.dims
  /\ (cPc = "settled" /\ cIn.fails \in ListedFaults /\ Made(cIn.fails)) =>
       cResult.status = "rejected"

\* warpPerspective threw and the promise was rejected
C19_Witness ==
  /\ cPc = "settled"
  /\ cIn.fails = "warpPerspective" /\ Made("warpPerspective")
  /\ cResult.status = "rejected" /\ cResult.thrownAt = "warpPerspective"

\* C20: every execution of cropDocumentFromFile that made a native OpenCV
\* call, and every frame analysis, ends with OpenCV.clearBuffers(): on
\* success, on a thrown error and on an early return.
C20_BuffersCleared ==
  /\ (cPc = "settled" /\ \E c \in NativeCalls : Made(c)) =>
       cTrace[Len(cTrace)] = "clearBuffers"
  /\ dDone => (dCalls # <<>> /\ dCalls[Len(dCalls)] = "clearBuffers")

\* a crop whose matrix solve threw and an analysis that returned early on a
\* short buffer have both ended with clearBuffers
C20_Witness ==
  /\ cPc = "settled" /\ cResult.thrownAt = "getPerspectiveTransform"
  /\ cTrace[Len(cTrace)] = "clearBuffers"
  /\ dDone /\ dFrame.resizedLen < expectedLen(dFrame.width, dFrame.height)
  /\ dCalls = <<"clearBuffers">>

----------------------------------------------------------------------------
(* The rectifier, under SpecRectify *)

Results == { rOut[k].result : k \in 1..Len(rOut) }

\* v is an integer >= 1 and is the square root of s rounded to the nearest
\* integer, 1 standing for every root below 3/2
NearestAtLeastOne(v, s) ==
  /\ v \in Nat /\ v >= 1
  /\ IF 4 * s.n < 9 * s.d
     THEN v = 1
     ELSE /\ (2 * v - 1) * (2 * v - 1) * s.d <= 4 * s.n
          /\ 4 * s.n < (2 * v + 1) * (2 * v + 1) * s.d

\* C21: the output size before rotation is max(1, round(max(dist(TL,TR),
\* dist(BL,BR)))) by max(1, round(max(dist(TL,BL), dist(TR,BR)))) on the
\* ordered corners: integers >= 1, also when corners coincide; the
\* destination corners are (0,0), (w-1,0), (w-1,h-1), (0,h-1).
C21_OutputSize ==
  \A r \in Results :
    LET q == r.ordered
    IN  /\ NearestAtLeastOne(r.outW, MathMax(distSquared(q[1], q[2]), distSquared(q[4], q[3])))
        /\ NearestAtLeastOne(r.outH, MathMax(distSquared(q[1], q[4]), distSquared(q[2], q[3])))
        /\ r.dst = <<Pt(0, 0), Pt(r.outW - 1, 0), Pt(r.outW - 1, r.outH - 1), Pt(0, r.outH - 1)>>

\* a quad whose four corners coincide was rectified into a 1 x 1 image
C21_Witness ==
  /\ \A i \in 1..4 : rIn.quad[i] = rIn.quad[1]
  /\ \E r \in Results :
       r.outW = 1 /\ r.outH = 1 /\ r.dst = <<Pt(0, 0), Pt(0, 0), Pt(0, 0), Pt(0, 0)>>

\* C22: with rotate 'cw' or 'ccw' the returned width and height are the
\* warp's height and width; with 'none' or '180' they are the warp's width
\* and height.
C22_DimsFollowRotation ==
  \A r \in Results :
    IF rIn.rotate \in {"cw", "ccw"}
    THEN r.width = r.outH /\ r.height = r.outW
    ELSE r.width = r.outW /\ r.height = r.outH

\* an 80 x 40 warp rotated counter-clockwise was returned as 40 x 80
C22_Witness ==
  /\ rIn.rotate = "ccw"
  /\ \E r \in Results : r.outW = 80 /\ r.outH = 40 /\ r.width = 40 /\ r.height = 80

desiredExtOf(format) ==
  IF format = "png" THEN <<".", "p", "n", "g">> ELSE <<".", "j", "p", "g">>

\* C23 as stated: every returned uri ends in .jpg when the format is jpeg
\* and in .png when it is png.
C23_ExtensionMatches ==
  \A r \in Results :
    r.uri # Undefined => endsWith(r.uri, desiredExtOf(rIn.format))

\* C23 amended: every returned uri ends in .jpg or .png as the format asks
\* when letter case is ignored, and the generated temp path ends in it
\* exactly.
C23_ExtensionMatchesAnyCase ==
  \A r \in Results :
    r.uri # Undefined =>
      /\ endsWith(toLowerCase(r.uri), desiredExtOf(rIn.format))
      /\ rIn.outputFileUri = Undefined => endsWith(r.uri, desiredExtOf(rIn.format))

\* a jpeg was asked for under a path ending in .png and the uri returned
\* ends in .jpg
C23_Witness ==
  /\ rIn.format = "jpeg"
  /\ rIn.outputFileUri = <<"/", "o", ".", "t", "a", "r", ".", "p", "n", "g">>
  /\ \E r \in Results : r.uri = fileScheme \o <<"/", "o", ".", "t", "a", "r", ".", "j", "p", "g">>

\* the encoded image a call produced, in the file or in the result
Content(r) == IF r.written # NoContent THEN r.written ELSE r.base64

----------------------------------------------------------------------------
(* Capture-time validation *)

\* C25: when handleTakePhoto runs with detection enabled and no stable
\* quad, no photo is taken and nothing is navigated to; when it navigates
\* with detection enabled, the Preview params carry the stable quad read
\* before takePhoto, that quad's frame size and the photo size.
C25_CaptureValidation ==
  /\ (cap.outcome # "none" /\ cap.enabled /\ ~HasQuad(cap.stable)) =>
       cap.outcome = "alert" /\ cap.pc = "idle" /\ ~isCapturing /\ cap.params = NoParams
  /\ (cap.pc = "navigated" /\ cap.enabled) =>
       /\ HasQuad(cap.stable)
       /\ cap.params.quad = cap.stable.quad
       /\ cap.params.frameSize =
            [width |-> cap.stable.frameWidth, height |-> cap.stable.frameHeight]
       /\ cap.params.photoSize = cap.lastPhoto
       /\ cap.lastPhoto \in Photos

\* a capture navigated with the quad read before takePhoto although
\* stableDetectedRef changed while the photo was being taken
C25_Witness ==
  /\ cap.pc = "navigated" /\ cap.enabled
  /\ HasQuad(stableDetectedRef) /\ stableDetectedRef # cap.stable
  /\ cap.params.quad = cap.stable.quad

\* C26: while detection is enabled, once every stabilizer update has been
\* applied, stableDetectedRef (read by handleTakePhoto) equals the
\* displayed `detected`; when `detected` is null after the hold window
\* expired, stableDetectedRef is null too.
C26_StableIsDisplayed ==
  (isRealtimeEnabledRef /\ isRealtimeDetectionEnabled /\ Quiescent) =>
    stableDetectedRef = detected

----------------------------------------------------------------------------
(* handleConfirm and the saved corners *)

\* C27: handleConfirm asks for a rotated output ('cw' or 'ccw') exactly
\* when the DISPLAY -> RAW mapping of the quad took the 90-degree rotation
\* branch; when the mapping is the identity or a scaling, square and
\* near-square images included, outputRotate is 'none'.
C27_RotateIffRotationBranch ==
  gOut.op = "displayToRaw" =>
    (gOut.rotate \in {"cw", "ccw"}
       <=> (~SameSize(gIn.from, gIn.to) /\ Swapped(gIn.from, gIn.to)))

\* C28: once handleSaveCorners has stored a quad in quadOnImage, no layout
\* event, image-size callback or render changes quadOnImage; only another
\* handleSaveCorners does.
C28_SavedCornersPersist ==
  editLog.saved => quadOnImage = editLog.quad

----------------------------------------------------------------------------
(* The two corner orderings, under SpecOrder *)

Distinct(q) == \A i \in 1..4 : \A j \in 1..4 : i # j => q[i] # q[j]

\* every corner of q is a corner of r and the other way round
SamePoints(q, r) ==
  { q[i] : i \in 1..4 } = { r[i] : i \in 1..4 }

\* C29: for any four pairwise distinct points the output of
\* orderQuadTLTRBRBL, and of cropDocument's orderQuad, is a permutation of
\* the four input points: no corner is dropped and none appears twice.
C29_NoCornerLost ==
  (gOut.op \in {"orderQuadTLTRBRBL", "orderQuad"} /\ Distinct(gIn.quad)) =>
    (Len(gOut.quad) = 4 /\ SamePoints(gOut.quad, numQuad(gIn.quad)))

\* orderQuad returns, for every four points, what orderQuadTLTRBRBL returns
SameOrdering ==
  /\ gOut.op = "orderQuad" => gOut.quad = orderQuadTLTRBRBL(numQuad(gIn.quad))
  /\ gOut.op = "orderQuadTLTRBRBL" => gOut.quad = orderQuad(numQuad(gIn.quad))

\* the quad ordered by the Preview screen comes out of the ordering inside
\* cropDocumentFromFile unchanged
ReorderKeeps == gOut.op = "cropReorder" => gOut.quad = gOut.mid

====
